---- MODULE Spec2Model ----
(***************************************************************************)
(* OCFT file transfer: the chunk codec (chunker.ts), the message protocol  *)
(* (protocol.ts) and the transfer engine (transfer.ts), as a state machine.*)
(*                                                                         *)
(* Conventions.  An optional value (T | undefined) is a sequence of length *)
(* at most one: None is <<>>, Some(v) is <<v>>.  A JavaScript Map is a     *)
(* function whose DOMAIN is the set of keys present.  Byte strings are     *)
(* sequences over ByteVals.  Timestamps that the engine only records       *)
(* (startedAt, updatedAt, completedAt, message timestamp) and mimeType are *)
(* left out: no decision of the engine reads them.                         *)
(***************************************************************************)
EXTENDS Integers, Sequences, FiniteSets, TLC

\* ------------------------------------------------------------------ bounds
MaxFileLen == 3      \* longest file content of the model, in bytes
MaxTime == 3         \* the clock runs 1..MaxTime
MaxWrites == 2       \* writeFile calls recorded per node
MaxQueued == 3       \* texts in the queues when the host resumes a transfer
MaxDelivered == 10   \* texts taken from the queues when the host resumes a transfer

ByteVals == {1, 2}
Nodes == {"A", "B"}
TransferIds == {"x1", "x2"}

None == <<>>
Some(v) == <<v>>
IsSome(o) == o # <<>>
Val(o) == o[1]

Max(a, b) == IF a >= b THEN a ELSE b
Min(a, b) == IF a <= b THEN a ELSE b

\* A Map with key k set to v (Map.prototype.set).
MapSet(m, k, v) == [x \in DOMAIN m \cup {k} |-> IF x = k THEN v ELSE m[x]]
EmptyMap == [x \in {} |-> 0]

\* ------------------------------------------------------------------ chunker.ts

\* SHA-256 as an ideal hash: injective on byte strings, never the string itself.
RECURSIVE sha256(_)
sha256(data) == IF data = <<>> THEN 1 ELSE Head(data) + 3 * sha256(Tail(data))

\* Buffer.toString('base64') / Buffer.from(s, 'base64'): a text code of the bytes.
RECURSIVE toBase64(_)
toBase64(data) == IF data = <<>> THEN 0 ELSE Head(data) + 2 * toBase64(Tail(data))

RECURSIVE fromBase64(_)
fromBase64(s) ==
  IF s <= 0 THEN <<>>
  ELSE LET d == IF s % 2 = 1 THEN 1 ELSE 2
       IN  <<d>> \o fromBase64((s - d) \div 2)

\* Math.ceil(a / b) for a >= 0, b >= 1.
CeilDiv(a, b) == (a + b - 1) \div b

\* Buffer.subarray(start, end): negative offsets count from the end, both are
\* clamped to [0, length], and an end before the start gives the empty buffer.
subarray(data, start, end) ==
  LET len == Len(data)
      s == IF start < 0 THEN Max(len + start, 0) ELSE Min(start, len)
      e == IF end < 0 THEN Max(len + end, 0) ELSE Min(end, len)
  IN  IF e <= s THEN <<>> ELSE SubSeq(data, s + 1, e)

getFileInfo(filePath, data, chunkSize) ==
  [ filename |-> filePath,
    size |-> Len(data),
    hash |-> sha256(data),
    chunkSize |-> chunkSize,
    totalChunks |-> CeilDiv(Len(data), chunkSize) ]

\* readChunk that reads the first chunk for every index.
readChunk_FirstOnly(data, index, chunkSize) ==
  LET chunkData == subarray(data, 0, Min(chunkSize, Len(data)))
  IN  [ index |-> index, data |-> chunkData, hash |-> sha256(chunkData) ]

readChunk(data, index, chunkSize) ==
  LET start == index * chunkSize
      end == Min(start + chunkSize, Len(data))
      chunkData == subarray(data, start, end)
  IN  [ index |-> index, data |-> chunkData, hash |-> sha256(chunkData) ]

\* An error text, with the numbers the text carries.
Err(text, indices) == [ text |-> text, indices |-> indices ]

\* new ChunkAssembler(outputPath, expectedHash, totalChunks)
ChunkAssembler(outputPath, expectedHash, totalChunks) ==
  [ chunks |-> EmptyMap,
    expectedHash |-> expectedHash,
    totalChunks |-> totalChunks,
    outputPath |-> outputPath ]

\* addChunk that stores the data whatever its hash.
addChunk_NoVerify(asm, index, data, expectedChunkHash) ==
  [ asm |-> [asm EXCEPT !.chunks = MapSet(asm.chunks, index, data)], ok |-> TRUE ]

\* addChunk: the pair <<assembler after the call, returned boolean>>.
addChunk(asm, index, data, expectedChunkHash) ==
  LET actualHash == sha256(data)
  IN  IF actualHash # expectedChunkHash
      THEN [ asm |-> asm, ok |-> FALSE ]
      ELSE [ asm |-> [asm EXCEPT !.chunks = MapSet(asm.chunks, index, data)],
             ok |-> TRUE ]

isComplete(asm) == Cardinality(DOMAIN asm.chunks) = asm.totalChunks

\* The missing indices, ascending.
RECURSIVE MissingFrom(_, _)
MissingFrom(asm, i) ==
  IF i >= asm.totalChunks THEN <<>>
  ELSE (IF i \in DOMAIN asm.chunks THEN <<>> ELSE <<i>>) \o MissingFrom(asm, i + 1)

\* getMissingChunks that stops at the first missing index.
getMissingChunks_FirstOnly(asm) ==
  IF MissingFrom(asm, 0) = <<>> THEN <<>> ELSE << Head(MissingFrom(asm, 0)) >>

getMissingChunks(asm) == MissingFrom(asm, 0)

\* getProgress: Math.round((chunks.size / totalChunks) * 100).  The quotient of
\* 0 by 0 is NaN and Math.round keeps it; a positive count over 0 is Infinity.
\* Math.round of a non-negative number rounds a half up.
getProgress(asm) ==
  LET size == Cardinality(DOMAIN asm.chunks)
  IN  IF asm.totalChunks = 0
      THEN [ kind |-> IF size = 0 THEN "NaN" ELSE "Infinity", value |-> 0 ]
      ELSE [ kind |-> "number",
             value |-> (200 * size + asm.totalChunks) \div (2 * asm.totalChunks) ]

\* Buffer.concat of the chunks from the last index down.
RECURSIVE ConcatFrom_Reversed(_, _)
ConcatFrom_Reversed(asm, i) ==
  IF i >= asm.totalChunks THEN <<>>
  ELSE ConcatFrom_Reversed(asm, i + 1) \o asm.chunks[i]

\* Buffer.concat of chunks i..totalChunks-1, in index order.
RECURSIVE ConcatFrom(_, _)
ConcatFrom(asm, i) ==
  IF i >= asm.totalChunks THEN <<>> ELSE asm.chunks[i] \o ConcatFrom(asm, i + 1)

\* The first index of i..totalChunks-1 that the loop of assemble finds absent.
RECURSIVE FirstAbsent(_, _)
FirstAbsent(asm, i) ==
  IF i >= asm.totalChunks THEN None
  ELSE IF i \notin DOMAIN asm.chunks THEN Some(i) ELSE FirstAbsent(asm, i + 1)

\* assemble that writes what it has once the chunk count is reached.
assemble_NoHashCheck(asm) ==
  IF ~isComplete(asm) \/ IsSome(FirstAbsent(asm, 0))
  THEN [ success |-> FALSE,
         error |-> Some(Err("Missing chunks", getMissingChunks(asm))),
         write |-> None ]
  ELSE [ success |-> TRUE, error |-> None, write |-> Some(ConcatFrom(asm, 0)) ]

\* assemble: the result and, on success, the bytes handed to writeFile.
assemble(asm) ==
  IF ~isComplete(asm)
  THEN [ success |-> FALSE,
         error |-> Some(Err("Missing chunks", getMissingChunks(asm))),
         write |-> None ]
  ELSE IF IsSome(FirstAbsent(asm, 0))
  THEN [ success |-> FALSE,
         error |-> Some(Err("Missing chunk", FirstAbsent(asm, 0))),
         write |-> None ]
  ELSE LET combined == ConcatFrom(asm, 0)
           actualHash == sha256(combined)
       IN  IF actualHash # asm.expectedHash
           THEN [ success |-> FALSE,
                  error |-> Some(Err("File hash mismatch", <<>>)),
                  write |-> None ]
           ELSE [ success |-> TRUE, error |-> None, write |-> Some(combined) ]

\* ------------------------------------------------------------------ protocol.ts

OCFT_VERSION == "1.0"
\* The source's prefix is the character U+1F517 followed by "OCFT:"; the string
\* here stands for the whole of it.
OCFT_PREFIX == "OCFT:"

createMessage(type, transferId, from, to, payload) ==
  [ type |-> type,
    transferId |-> transferId,
    from |-> from,
    to |-> to,
    payload |-> payload,
    version |-> OCFT_VERSION ]

\* JSON text: the object's fields under a "json" tag; text that is no JSON at all
\* is the record [garbage |-> TRUE].
serialize(msg) == [ json |-> msg ]

IsJson(data) == DOMAIN data = {"json"}

\* A field that is missing, "" or otherwise falsy is the empty string here.
Truthy(obj, f) == f \in DOMAIN obj /\ obj[f] # ""

deserialize(data) ==
  IF ~IsJson(data) THEN None
  ELSE LET msg == data.json
       IN  IF Truthy(msg, "version") /\ Truthy(msg, "type") /\ Truthy(msg, "transferId")
           THEN Some(msg)
           ELSE None

\* A chat text: what precedes the payload (the prefix, or anything else) and the
\* Base64 body, which decodes to the JSON text.
encodeForChat(msg) == [ prefix |-> OCFT_PREFIX, b64 |-> serialize(msg) ]

startsWith(text, prefix) == text.prefix = prefix

decodeFromChat(text) ==
  IF ~startsWith(text, OCFT_PREFIX) THEN None ELSE deserialize(text.b64)

\* ------------------------------------------------------------------ transfer.ts

DEFAULT_CHUNK_SIZE == 49152
DEFAULT_MAX_FILE_SIZE == 104857600

\* The constructor: the defaults, overridden by the keys the host's config has.
\* A key the host leaves out is None in `config` and takes its default.
TransferManager(config) ==
  [ botId |-> config.botId,
    secret |-> config.secret,
    secretTTL |-> config.secretTTL,
    downloadDir |-> config.downloadDir,
    autoAccept |-> IF IsSome(config.autoAccept) THEN Val(config.autoAccept) ELSE FALSE,
    trustedPeers |-> config.trustedPeers,
    maxFileSize |-> IF IsSome(config.maxFileSize) THEN Val(config.maxFileSize)
                    ELSE DEFAULT_MAX_FILE_SIZE,
    chunkSize |-> IF IsSome(config.chunkSize) THEN Val(config.chunkSize)
                  ELSE DEFAULT_CHUNK_SIZE ]

\* Array.prototype.find on trustedPeers: the first peer with that id.
RECURSIVE FindPeer(_, _)
FindPeer(peers, id) ==
  IF peers = <<>> THEN None
  ELSE IF Head(peers).id = id THEN Some(Head(peers)) ELSE FindPeer(Tail(peers), id)

getPeerSecret(cfg, peerId) ==
  LET peer == FindPeer(cfg.trustedPeers, peerId)
  IN  IF IsSome(peer) THEN Some(Val(peer).secret) ELSE None

\* isValidSecret without the TTL check.
isValidSecret_NoTTL(cfg, clock, secret, secretTTL) ==
  IsSome(secret) /\ Val(secret) = cfg.secret

isValidSecret(cfg, clock, secret, secretTTL) ==
  IF ~IsSome(secret) \/ Val(secret) = "" THEN FALSE
  ELSE IF Val(secret) # cfg.secret THEN FALSE
  ELSE IF IsSome(secretTTL) /\ Val(secretTTL) # 0 /\ clock > Val(secretTTL) THEN FALSE
  ELSE TRUE

\* isPeerTrustValid without the expiry check.
isPeerTrustValid_Always(clock, peer) == TRUE

isPeerTrustValid(clock, peer) ==
  IF ~IsSome(peer.expiresAt) \/ Val(peer.expiresAt) = 0 THEN TRUE
  ELSE clock < Val(peer.expiresAt)

\* The engine of one node while a handler runs: its maps, its disk, the messages
\* it has handed to sendMessage and the writeFile calls it has made.
\*   e.transfers, e.assemblers, e.filePaths : Map by transferId
\*   e.disk : Map by path;  e.sent, e.writes : sequences;  e.threw : the Error thrown
\*   e.ret : the value returned;  e.list : the transfers returned, by id
\*   e.seen : the maps as they are at each call of sendMessage, a handler that
\*            the host runs from within sendMessage finding the engine so

send(e, to, msg) ==
  [e EXCEPT !.sent = Append(@, [ to |-> to, text |-> encodeForChat(msg) ]),
            !.seen = Append(@, [ assemblers |-> e.assemblers,
                                 filePaths |-> e.filePaths,
                                 transfers |-> e.transfers ])]

Throw(e, text) == [e EXCEPT !.threw = Some(text)]

filenameOf(filePath) == filePath[2]

\* sendFile that hands the offer to send before it records the transfer.
sendFile_SendsFirst(cfg, clock, e, transferId, peerId, filePath) ==
  LET fileInfo == getFileInfo(filenameOf(filePath), e.disk[filePath], cfg.chunkSize)
      transfer == [ id |-> transferId,
                    direction |-> "send",
                    state |-> "pending",
                    peerId |-> peerId,
                    filename |-> fileInfo.filename,
                    size |-> fileInfo.size,
                    hash |-> fileInfo.hash,
                    chunkSize |-> fileInfo.chunkSize,
                    totalChunks |-> fileInfo.totalChunks,
                    receivedChunks |-> {},
                    error |-> None,
                    resumable |-> FALSE,
                    localPath |-> Some(filePath) ]
      offer == createMessage("offer", transferId, cfg.botId, peerId,
                 [ filename |-> fileInfo.filename,
                   size |-> fileInfo.size,
                   hash |-> fileInfo.hash,
                   chunkSize |-> fileInfo.chunkSize,
                   totalChunks |-> fileInfo.totalChunks,
                   secret |-> getPeerSecret(cfg, peerId),
                   secretTTL |-> IF IsSome(cfg.secretTTL) /\ Val(cfg.secretTTL) # 0
                                 THEN Some(clock + Val(cfg.secretTTL)) ELSE None,
                   resumeFrom |-> None ])
      e1 == send(e, peerId, offer)
  IN  [e1 EXCEPT !.transfers = MapSet(@, transferId, transfer),
                 !.filePaths = MapSet(@, transferId, filePath)]

sendFile(cfg, clock, e, transferId, peerId, filePath) ==
  LET fileInfo == getFileInfo(filenameOf(filePath), e.disk[filePath], cfg.chunkSize)
      transfer == [ id |-> transferId,
                    direction |-> "send",
                    state |-> "pending",
                    peerId |-> peerId,
                    filename |-> fileInfo.filename,
                    size |-> fileInfo.size,
                    hash |-> fileInfo.hash,
                    chunkSize |-> fileInfo.chunkSize,
                    totalChunks |-> fileInfo.totalChunks,
                    receivedChunks |-> {},
                    error |-> None,
                    resumable |-> FALSE,
                    localPath |-> Some(filePath) ]
      e1 == [e EXCEPT !.transfers = MapSet(@, transferId, transfer),
                      !.filePaths = MapSet(@, transferId, filePath)]
      offer == createMessage("offer", transferId, cfg.botId, peerId,
                 [ filename |-> fileInfo.filename,
                   size |-> fileInfo.size,
                   hash |-> fileInfo.hash,
                   chunkSize |-> fileInfo.chunkSize,
                   totalChunks |-> fileInfo.totalChunks,
                   secret |-> getPeerSecret(cfg, peerId),
                   secretTTL |-> IF IsSome(cfg.secretTTL) /\ Val(cfg.secretTTL) # 0
                                 THEN Some(clock + Val(cfg.secretTTL)) ELSE None,
                   resumeFrom |-> None ])
  IN  send(e1, peerId, offer)

\* acceptTransfer that keeps the assembler the transfer already has.
acceptTransfer_KeepsAssembler(cfg, e, transferId, resumeFrom) ==
  IF \/ transferId \notin DOMAIN e.transfers
     \/ e.transfers[transferId].direction # "receive"
     \/ e.transfers[transferId].state # "pending"
  THEN Throw(e, "Invalid transfer or already processed")
  ELSE LET t == e.transfers[transferId]
           outputPath == << cfg.downloadDir, t.filename >>
           t1 == [t EXCEPT !.state = "accepted", !.resumable = TRUE,
                           !.localPath = Some(outputPath)]
           e1 == [e EXCEPT !.transfers = MapSet(@, transferId, t1),
                           !.assemblers =
                              IF transferId \in DOMAIN @ THEN @
                              ELSE MapSet(@, transferId,
                                     ChunkAssembler(outputPath, t.hash, t.totalChunks))]
       IN  send(e1, t.peerId,
                createMessage("accept", transferId, cfg.botId, t.peerId,
                  [ ready |-> TRUE, resumeFrom |-> resumeFrom ]))

acceptTransfer(cfg, e, transferId, resumeFrom) ==
  IF \/ transferId \notin DOMAIN e.transfers
     \/ e.transfers[transferId].direction # "receive"
     \/ e.transfers[transferId].state # "pending"
  THEN Throw(e, "Invalid transfer or already processed")
  ELSE LET t == e.transfers[transferId]
           outputPath == << cfg.downloadDir, t.filename >>
           t1 == [t EXCEPT !.state = "accepted",
                           !.resumable = TRUE,
                           !.localPath = Some(outputPath)]
           assembler == ChunkAssembler(outputPath, t.hash, t.totalChunks)
           e1 == [e EXCEPT !.transfers = MapSet(@, transferId, t1),
                           !.assemblers = MapSet(@, transferId, assembler)]
           accept == createMessage("accept", transferId, cfg.botId, t.peerId,
                       [ ready |-> TRUE, resumeFrom |-> resumeFrom ])
       IN  send(e1, t.peerId, accept)

rejectTransfer(cfg, e, transferId, reason) ==
  IF \/ transferId \notin DOMAIN e.transfers
     \/ e.transfers[transferId].direction # "receive"
     \/ e.transfers[transferId].state # "pending"
  THEN Throw(e, "Invalid transfer or already processed")
  ELSE LET t == e.transfers[transferId]
           t1 == [t EXCEPT !.state = "rejected", !.error = Some(Err(reason, <<>>))]
           e1 == [e EXCEPT !.transfers = MapSet(@, transferId, t1)]
           reject == createMessage("reject", transferId, cfg.botId, t.peerId,
                       [ reason |-> Err(reason, <<>>) ])
       IN  send(e1, t.peerId, reject)

\* What readFile and writeFile reject with.
ReadError == Err("ENOENT: no such file or directory, open", <<>>)
WriteError == Err("ENOENT: no such file or directory, open for writing", <<>>)

\* The directories that exist; a path is << directory, file name >>.
Directories == { "dl", "src", "out" }
Writable(path) == path[1] \in Directories

\* readChunk reads the file anew for every chunk and rejects when the file is
\* not there; nothing catches the rejection.
sendNextChunk(e, botId, transferId, index) ==
  IF transferId \notin DOMAIN e.transfers \/ transferId \notin DOMAIN e.filePaths
  THEN e
  ELSE IF e.filePaths[transferId] \notin DOMAIN e.disk THEN Throw(e, ReadError)
  ELSE LET transfer == e.transfers[transferId]
           filePath == e.filePaths[transferId]
           chunk == readChunk(e.disk[filePath], index, transfer.chunkSize)
           chunkMsg == createMessage("chunk", transferId, botId, transfer.peerId,
                         [ index |-> chunk.index,
                           data |-> toBase64(chunk.data),
                           hash |-> chunk.hash ])
       IN  send(e, transfer.peerId, chunkMsg)

\* config.maxFileSize || Infinity: None is Infinity.
SizeLimit(cfg) == IF cfg.maxFileSize = 0 THEN None ELSE Some(cfg.maxFileSize)

handleOffer(cfg, clock, e, msg) ==
  LET payload == msg.payload
      limit == SizeLimit(cfg)
  IN  IF IsSome(limit) /\ payload.size > Val(limit)
      THEN send(e, msg.from,
                createMessage("reject", msg.transferId, cfg.botId, msg.from,
                  [ reason |-> Err("File too large", << payload.size >>) ]))
      ELSE LET transfer == [ id |-> msg.transferId,
                             direction |-> "receive",
                             state |-> "pending",
                             peerId |-> msg.from,
                             filename |-> payload.filename,
                             size |-> payload.size,
                             hash |-> payload.hash,
                             chunkSize |-> payload.chunkSize,
                             totalChunks |-> payload.totalChunks,
                             receivedChunks |-> {},
                             error |-> None,
                             resumable |-> FALSE,
                             localPath |-> None ]
               e1 == [e EXCEPT !.transfers = MapSet(@, msg.transferId, transfer)]
               trustedPeer == FindPeer(cfg.trustedPeers, msg.from)
           IN  IF isValidSecret(cfg, clock, payload.secret, payload.secretTTL)
               THEN acceptTransfer(cfg, e1, msg.transferId, payload.resumeFrom)
               ELSE IF cfg.autoAccept /\ IsSome(trustedPeer)
                                      /\ isPeerTrustValid(clock, Val(trustedPeer))
               THEN acceptTransfer(cfg, e1, msg.transferId, payload.resumeFrom)
               ELSE e1

\* handleAccept that sends two chunks at once.
handleAccept_Pipelined(cfg, e, msg) ==
  IF msg.transferId \notin DOMAIN e.transfers THEN e
  ELSE sendNextChunk(
         sendNextChunk([e EXCEPT !.transfers[msg.transferId].state = "transferring"],
                       cfg.botId, msg.transferId, 0),
         cfg.botId, msg.transferId, 1)

\* handleAccept without the check of the direction.
handleAccept_AnyDirection(cfg, e, msg) ==
  IF msg.transferId \notin DOMAIN e.transfers THEN e
  ELSE LET e1 == [e EXCEPT !.transfers[msg.transferId].state = "transferring"]
           startIndex == IF IsSome(msg.payload.resumeFrom)
                         THEN Val(msg.payload.resumeFrom) ELSE 0
       IN  sendNextChunk(e1, cfg.botId, msg.transferId, startIndex)

handleAccept(cfg, e, msg) ==
  IF \/ msg.transferId \notin DOMAIN e.transfers
     \/ e.transfers[msg.transferId].direction # "send"
  THEN e
  ELSE LET e1 == [e EXCEPT !.transfers[msg.transferId].state = "transferring"]
           startIndex == IF IsSome(msg.payload.resumeFrom)
                         THEN Val(msg.payload.resumeFrom) ELSE 0
       IN  sendNextChunk(e1, cfg.botId, msg.transferId, startIndex)

handleReject_AllTransfers(e, msg) ==
  IF msg.transferId \notin DOMAIN e.transfers THEN e
  ELSE [e EXCEPT !.transfers =
          [ id \in DOMAIN e.transfers |->
              [ e.transfers[id] EXCEPT !.state = "rejected",
                                       !.error = Some(msg.payload.reason) ] ]]

handleReject(e, msg) ==
  IF msg.transferId \notin DOMAIN e.transfers THEN e
  ELSE [e EXCEPT !.transfers[msg.transferId].state = "rejected",
                 !.transfers[msg.transferId].error = Some(msg.payload.reason)]

handleChunk(cfg, e, msg) ==
  IF \/ msg.transferId \notin DOMAIN e.transfers
     \/ e.transfers[msg.transferId].direction # "receive"
  THEN e
  ELSE IF msg.transferId \notin DOMAIN e.assemblers THEN e
  ELSE LET payload == msg.payload
           data == fromBase64(payload.data)
           r == addChunk(e.assemblers[msg.transferId], payload.index, data, payload.hash)
           success == r.ok
           e1 == [e EXCEPT
                    !.transfers[msg.transferId].state = "transferring",
                    !.assemblers[msg.transferId] = r.asm,
                    !.transfers[msg.transferId].receivedChunks =
                        IF success THEN @ \cup {payload.index} ELSE @]
           ack == createMessage("ack", msg.transferId, cfg.botId, msg.from,
                    [ index |-> payload.index,
                      received |-> success,
                      error |-> IF success THEN None
                                ELSE Some(Err("Hash mismatch", <<>>)) ])
       IN  send(e1, msg.from, ack)

\* handleAck that takes every ack as received.
handleAck_NackAdvances(cfg, e, msg) ==
  IF msg.transferId \notin DOMAIN e.transfers THEN e
  ELSE sendNextChunk([e EXCEPT !.transfers[msg.transferId].receivedChunks =
                                 @ \cup {msg.payload.index}],
                     cfg.botId, msg.transferId, msg.payload.index + 1)

handleAck(cfg, e, msg) ==
  IF \/ msg.transferId \notin DOMAIN e.transfers
     \/ e.transfers[msg.transferId].direction # "send"
  THEN e
  ELSE LET transfer == e.transfers[msg.transferId]
           payload == msg.payload
       IN  IF transfer.state = "completed" \/ transfer.state = "completing"
           THEN IF payload.index = -1
                THEN [e EXCEPT !.transfers[msg.transferId].state = "completed"]
                ELSE e
           ELSE IF ~payload.received
           THEN sendNextChunk(e, cfg.botId, msg.transferId, payload.index)
           ELSE LET e1 == [e EXCEPT !.transfers[msg.transferId].receivedChunks =
                                        @ \cup {payload.index}]
                    nextIndex == payload.index + 1
                IN  IF nextIndex < transfer.totalChunks
                    THEN sendNextChunk(e1, cfg.botId, msg.transferId, nextIndex)
                    ELSE send([e1 EXCEPT !.transfers[msg.transferId].state = "completing"],
                              transfer.peerId,
                              createMessage("complete", msg.transferId, cfg.botId,
                                transfer.peerId,
                                [ totalChunks |-> transfer.totalChunks,
                                  hash |-> transfer.hash ]))

\* handleComplete that reports success whatever assemble returned.
handleComplete_AlwaysCompleted(cfg, e, msg) ==
  IF \/ msg.transferId \notin DOMAIN e.transfers
     \/ e.transfers[msg.transferId].direction # "receive"
  THEN e
  ELSE IF msg.transferId \notin DOMAIN e.assemblers THEN e
  ELSE send([e EXCEPT !.transfers[msg.transferId].state = "completed"], msg.from,
            createMessage("ack", msg.transferId, cfg.botId, msg.from,
              [ index |-> -1, received |-> TRUE, error |-> None ]))

handleComplete(cfg, e, msg) ==
  IF \/ msg.transferId \notin DOMAIN e.transfers
     \/ e.transfers[msg.transferId].direction # "receive"
  THEN e
  ELSE IF msg.transferId \notin DOMAIN e.assemblers THEN e
  ELSE IF /\ assemble(e.assemblers[msg.transferId]).success
          /\ ~Writable(e.assemblers[msg.transferId].outputPath)
  THEN \* writeFile rejects inside assemble, and so does handleComplete
       Throw(e, WriteError)
  ELSE LET assembler == e.assemblers[msg.transferId]
           result == assemble(assembler)
           e1 == IF result.success
                 THEN [e EXCEPT
                         !.disk = MapSet(@, assembler.outputPath, Val(result.write)),
                         !.writes = Append(@, [ transferId |-> msg.transferId,
                                                path |-> assembler.outputPath,
                                                data |-> Val(result.write) ]),
                         !.transfers[msg.transferId].state = "completed"]
                 ELSE [e EXCEPT
                         !.transfers[msg.transferId].state = "failed",
                         !.transfers[msg.transferId].error = result.error]
           ack == createMessage("ack", msg.transferId, cfg.botId, msg.from,
                    [ index |-> -1,
                      received |-> result.success,
                      error |-> result.error ])
       IN  send(e1, msg.from, ack)

\* handleError that leaves a transfer in a terminal state alone.
handleError_OnlyLive(e, msg) ==
  IF msg.transferId \notin DOMAIN e.transfers THEN e
  ELSE IF e.transfers[msg.transferId].state \in { "completed", "rejected", "failed" } THEN e
  ELSE [e EXCEPT !.transfers[msg.transferId].state = "failed",
                 !.transfers[msg.transferId].error = Some(msg.payload.message)]

handleError(e, msg) ==
  IF msg.transferId \notin DOMAIN e.transfers THEN e
  ELSE [e EXCEPT !.transfers[msg.transferId].state = "failed",
                 !.transfers[msg.transferId].error = Some(msg.payload.message)]

\* The TypeError of reading a property of msg.payload when the JSON had no
\* payload (deserialize checks version, type and transferId only).
NoPayloadError == Err("Cannot read properties of undefined", <<>>)

\* What the handlers do with a message that has no payload: the statements up to
\* the first read of a field of the payload, which throws.
\*   handleOffer reads payload.size first;
\*   handleAccept sets the state, then reads payload.resumeFrom;
\*   handleReject sets the state, then reads payload.reason;
\*   handleChunk sets the state, then reads payload.data;
\*   handleAck reads payload.index or payload.received before any write;
\*   handleComplete reads no field of the payload;
\*   handleError sets the state, then reads payload.message.
handleWithoutPayload(cfg, e, msg) ==
  LET id == msg.transferId
      known == id \in DOMAIN e.transfers
      StateThenThrow(state) ==
        Throw([e EXCEPT !.transfers[id].state = state], NoPayloadError)
  IN  CASE msg.type = "offer" -> Throw(e, NoPayloadError)
        [] msg.type = "accept" ->
             IF ~known \/ e.transfers[id].direction # "send" THEN e
             ELSE StateThenThrow("transferring")
        [] msg.type = "reject" ->
             IF ~known THEN e ELSE StateThenThrow("rejected")
        [] msg.type = "chunk" ->
             IF ~known \/ e.transfers[id].direction # "receive" THEN e
             ELSE IF id \notin DOMAIN e.assemblers THEN e
             ELSE StateThenThrow("transferring")
        [] msg.type = "ack" ->
             IF ~known \/ e.transfers[id].direction # "send" THEN e
             ELSE Throw(e, NoPayloadError)
        [] msg.type = "complete" -> handleComplete(cfg, e, msg)
        [] msg.type = "error" ->
             IF ~known THEN e ELSE StateThenThrow("failed")
        [] OTHER -> e

\* handleMessage: the engine after the call, with the returned boolean in .ret
\* (no value is returned when a handler threw: the promise is rejected).
\* fromId is a parameter the code never reads.
handleMessage(cfg, clock, e, fromId, text) ==
  IF ~startsWith(text, OCFT_PREFIX) THEN [e EXCEPT !.ret = "false"]
  ELSE LET decoded == decodeFromChat(text)
       IN  IF ~IsSome(decoded) THEN [e EXCEPT !.ret = "false"]
           ELSE LET msg == Val(decoded)
                IN  IF msg.to # cfg.botId THEN [e EXCEPT !.ret = "false"]
                    ELSE LET e1 ==
                               CASE "payload" \notin DOMAIN msg ->
                                      handleWithoutPayload(cfg, e, msg)
                                 [] msg.type = "offer" -> handleOffer(cfg, clock, e, msg)
                                 [] msg.type = "accept" -> handleAccept(cfg, e, msg)
                                 [] msg.type = "reject" -> handleReject(e, msg)
                                 [] msg.type = "chunk" -> handleChunk(cfg, e, msg)
                                 [] msg.type = "ack" -> handleAck(cfg, e, msg)
                                 [] msg.type = "complete" -> handleComplete(cfg, e, msg)
                                 [] msg.type = "error" -> handleError(e, msg)
                                 [] OTHER -> e
                         IN  IF IsSome(e1.threw) THEN e1
                             ELSE [e1 EXCEPT !.ret = "true"]

Maximum(S, default) ==
  IF S = {} THEN default
  ELSE Max(default, CHOOSE x \in S : \A y \in S : y <= x)

\* resumeTransfer that restarts from index 0.
resumeTransfer_FromZero(cfg, clock, e, transferId) ==
  IF transferId \notin DOMAIN e.transfers THEN Throw(e, "Transfer not found")
  ELSE IF e.transfers[transferId].state = "completed"
  THEN Throw(e, "Transfer already completed")
  ELSE acceptTransfer(cfg, [e EXCEPT !.transfers[transferId].state = "pending",
                                     !.transfers[transferId].direction = "receive"],
                      transferId, Some(0))

\* resumeTransfer that does not look at the state before making it pending.
resumeTransfer_AnyState(cfg, clock, e, transferId) ==
  IF transferId \notin DOMAIN e.transfers THEN Throw(e, "Transfer not found")
  ELSE [e EXCEPT !.transfers[transferId].state = "pending"]

resumeTransfer(cfg, clock, e, transferId) ==
  IF transferId \notin DOMAIN e.transfers THEN Throw(e, "Transfer not found")
  ELSE LET transfer == e.transfers[transferId]
       IN  IF transfer.state = "completed" THEN Throw(e, "Transfer already completed")
           ELSE IF transfer.direction = "receive"
           THEN LET lastChunk == Maximum(transfer.receivedChunks, -1)
                    e1 == [e EXCEPT !.transfers[transferId].state = "pending"]
                IN  acceptTransfer(cfg, e1, transferId, Some(lastChunk + 1))
           ELSE LET lastAcked == Maximum(transfer.receivedChunks, -1)
                IN  IF transferId \notin DOMAIN e.filePaths
                    THEN Throw(e, "File path not found")
                    ELSE LET offer ==
                               createMessage("offer", transferId, cfg.botId, transfer.peerId,
                                 [ filename |-> transfer.filename,
                                   size |-> transfer.size,
                                   hash |-> transfer.hash,
                                   chunkSize |-> transfer.chunkSize,
                                   totalChunks |-> transfer.totalChunks,
                                   secret |-> getPeerSecret(cfg, transfer.peerId),
                                   secretTTL |->
                                     IF IsSome(cfg.secretTTL) /\ Val(cfg.secretTTL) # 0
                                     THEN Some(clock + Val(cfg.secretTTL)) ELSE None,
                                   resumeFrom |-> Some(lastAcked + 1) ])
                         IN  send([e EXCEPT !.transfers[transferId].state = "pending"],
                                  transfer.peerId, offer)

\* getResumableTransfers that returns every tracked transfer.
getResumableTransfers_All(e) == DOMAIN e.transfers

getResumableTransfers(e) ==
  { id \in DOMAIN e.transfers :
      LET t == e.transfers[id]
      IN  /\ t.resumable
          /\ t.state # "completed"
          /\ t.state # "rejected"
          /\ Cardinality(t.receivedChunks) > 0 }

\* ------------------------------------------------------------------ state

VARIABLES
  config,      \* per node: the TransferManager's config, after the constructor
  transfers,   \* per node: Map transferId -> TransferInfo
  assemblers,  \* per node: Map transferId -> ChunkAssembler
  filePaths,   \* per node: Map transferId -> local file path
  disk,        \* per node: Map path -> file content
  writes,      \* per node: the writeFile calls made, in order
  queue,       \* per node: the chat texts sent to it and not yet handed to handleMessage
  delivered,   \* the number of texts the host's loop has taken from the queues
  now,         \* Date.now()
  last         \* the operation that ran last: its arguments, result and sent messages

vars == << config, transfers, assemblers, filePaths, disk, writes, queue, delivered, now, last >>

\* The file of k bytes that a node has to send, at path <<"src", k>>.
FileData(k) == [i \in 1..k |-> IF i = 1 THEN 1 ELSE 2]
FileSizes == 0..MaxFileLen
SourcePaths == { << "src", k >> : k \in FileSizes }
SourceDisk == [p \in SourcePaths |-> FileData(p[2])]

Idle == [ op |-> "none", node |-> "", arg |-> <<>>, ret |-> "void", list |-> {},
          threw |-> None, sent |-> <<>>, seen |-> <<>> ]

Engine(n) ==
  [ transfers |-> transfers[n],
    assemblers |-> assemblers[n],
    filePaths |-> filePaths[n],
    disk |-> disk[n],
    writes |-> writes[n],
    sent |-> <<>>,
    seen |-> <<>>,
    threw |-> None,
    ret |-> "void",
    list |-> {} ]

\* The host's sendMessage of demo.ts: push the text on the addressee's queue, if
\* it has one.
RECURSIVE Pushed(_, _, _)
Pushed(q, from, sent) ==
  IF sent = <<>> THEN q
  ELSE LET m == Head(sent)
           q1 == IF m.to \in DOMAIN q
                 THEN [q EXCEPT ![m.to] = Append(@, [ from |-> from, text |-> m.text ])]
                 ELSE q
       IN  Pushed(q1, from, Tail(sent))

\* The engine's fields and the record of the operation, after an operation of
\* node n that leaves the queues as q, the host's loop having taken `took` texts.
Commit(n, e, op, arg, q, took) ==
  /\ transfers' = [transfers EXCEPT ![n] = e.transfers]
  /\ assemblers' = [assemblers EXCEPT ![n] = e.assemblers]
  /\ filePaths' = [filePaths EXCEPT ![n] = e.filePaths]
  /\ disk' = [disk EXCEPT ![n] = e.disk]
  /\ writes' = [writes EXCEPT ![n] = e.writes]
  /\ last' = [ op |-> op, node |-> n, arg |-> arg, ret |-> e.ret, list |-> e.list,
               threw |-> e.threw, sent |-> e.sent, seen |-> e.seen ]
  /\ queue' = q
  /\ delivered' = delivered + took
  /\ UNCHANGED << config, now >>

\* ------------------------------------------------------------------ actions

Tick ==
  /\ now < MaxTime
  /\ now' = now + 1
  /\ last' = Idle
  /\ UNCHANGED << config, transfers, assemblers, filePaths, disk, writes, queue, delivered >>

\* The host hands a text to handleMessage of node n; what the engine sends is
\* only recorded.
HandleMessage(n, fromId, text) ==
  /\ Len(writes[n]) < MaxWrites
  /\ Commit(n, handleMessage(config[n], now, Engine(n), fromId, text),
            "handleMessage", [ fromId |-> fromId, text |-> text ], queue, 0)

\* The loop of demo.ts: the host takes the next text queued for node n and hands
\* it to handleMessage; what the engine sends is queued for the addressee.
Deliver(n) ==
  /\ queue[n] # <<>>
  /\ \E item \in { Head(queue[n]) } :
     \E e \in { handleMessage(config[n], now, Engine(n), item.from, item.text) } :
         Commit(n, e, "handleMessage", [ fromId |-> item.from, text |-> item.text ],
                Pushed([queue EXCEPT ![n] = Tail(@)], n, e.sent), 1)

\* The host calls sendFile; nanoid gives an id the node does not hold yet.
\* chat: the host's sendMessage is the one of demo.ts.
SendFile(n, transferId, peerId, filePath, chat) ==
  /\ transferId \notin DOMAIN transfers[n]
  /\ filePath \in DOMAIN disk[n]
  /\ LET e == sendFile(config[n], now, Engine(n), transferId, peerId, filePath)
     IN  Commit(n, e, "sendFile",
                [ transferId |-> transferId, peerId |-> peerId, filePath |-> filePath ],
                IF chat THEN Pushed(queue, n, e.sent) ELSE queue, 0)

\* The host calls acceptTransfer / rejectTransfer / resumeTransfer.
AcceptTransfer(n, transferId, resumeFrom) ==
  /\ n \in Nodes
  /\ Commit(n, acceptTransfer(config[n], Engine(n), transferId, resumeFrom),
            "acceptTransfer", [ transferId |-> transferId, resumeFrom |-> resumeFrom ],
            queue, 0)

RejectTransfer(n, transferId, reason) ==
  /\ n \in Nodes
  /\ Commit(n, rejectTransfer(config[n], Engine(n), transferId, reason),
            "rejectTransfer", [ transferId |-> transferId, reason |-> reason ], queue, 0)

ResumeTransfer(n, transferId) ==
  /\ n \in Nodes
  /\ Commit(n, resumeTransfer(config[n], now, Engine(n), transferId),
            "resumeTransfer", [ transferId |-> transferId ], queue, 0)

\* The host calls getResumableTransfers; the ids of the transfers returned are
\* the operation's result.
GetResumableTransfers(n) ==
  /\ n \in Nodes
  /\ Commit(n, [Engine(n) EXCEPT !.ret = "array",
                                 !.list = getResumableTransfers(Engine(n))],
            "getResumableTransfers", <<>>, queue, 0)

\* ------------------------------------------------------------------ the peers' texts

Self == "B"
Peers == {"A", "C"}
SecretOf(n) == IF n = "A" THEN "sA" ELSE IF n = "B" THEN "sB" ELSE "sC"

\* The config a host passes to the constructor.
HostConfig(n, autoAccept, trustedPeers, maxFileSize, secretTTL, chunkSize) ==
  [ botId |-> n,
    secret |-> SecretOf(n),
    secretTTL |-> secretTTL,
    downloadDir |-> "dl",
    autoAccept |-> autoAccept,
    trustedPeers |-> trustedPeers,
    maxFileSize |-> maxFileSize,
    chunkSize |-> Some(chunkSize) ]

TrustedPeer(id, expiresAt) == [ id |-> id, secret |-> SecretOf(id), expiresAt |-> expiresAt ]

\* The offer a peer builds for a file of k bytes cut in chunks of c bytes.
OfferPayload(k, c, secret, secretTTL, resumeFrom) ==
  [ filename |-> k,
    size |-> k,
    hash |-> sha256(FileData(k)),
    chunkSize |-> c,
    totalChunks |-> CeilDiv(k, c),
    secret |-> secret,
    secretTTL |-> secretTTL,
    resumeFrom |-> resumeFrom ]

Wire(type, id, from, to, payload) == encodeForChat(createMessage(type, id, from, to, payload))

\* Texts that are no protocol message: chat without the prefix (even around a
\* well-formed body), a prefixed body that is no JSON, JSON without a version.
Chatter(id) ==
  { [ prefix |-> "hello", b64 |-> [ garbage |-> TRUE ] ],
    [ prefix |-> "hello", b64 |-> serialize(createMessage("error", id, "A", Self,
                                     [ code |-> "E", message |-> Err("boom", <<>>),
                                       recoverable |-> FALSE ])) ],
    [ prefix |-> OCFT_PREFIX, b64 |-> [ garbage |-> TRUE ] ],
    [ prefix |-> OCFT_PREFIX,
      b64 |-> serialize([ type |-> "error", transferId |-> id, from |-> "A", to |-> Self,
                          payload |-> [ code |-> "E", message |-> Err("boom", <<>>),
                                        recoverable |-> FALSE ] ]) ] }

\* ------------------------------------------------------------------ SpecOffer
\* One engine, B, under every configuration of the size limit, legacy
\* auto-accept and the trust store; its peers send offers; the clock runs.

OfferConfigs ==
  { TransferManager(HostConfig(Self, aa, tp, mx, None, 2)) :
      aa \in { None, Some(TRUE) },
      tp \in { <<>>, << TrustedPeer("A", None) >>, << TrustedPeer("A", Some(2)) >> },
      mx \in { None } \cup { Some(k) : k \in 0..(MaxFileLen - 1) } }

OfferTexts ==
  { Wire("offer", "x1", from, Self, OfferPayload(k, 2, secret, ttl, None)) :
      from \in Peers,
      k \in FileSizes,
      secret \in { None, Some(SecretOf(Self)), Some("guess") },
      ttl \in { None, Some(2) } }

\* Every node but Self runs the plain configuration of demo.ts's sender.
PlainConfig(n) == TransferManager(HostConfig(n, None, <<>>, None, None, 2))

InitEngines(cfgs) ==
  /\ \E c \in cfgs : config = [n \in Nodes |-> IF n = Self THEN c ELSE PlainConfig(n)]
  /\ transfers = [n \in Nodes |-> EmptyMap]
  /\ assemblers = [n \in Nodes |-> EmptyMap]
  /\ filePaths = [n \in Nodes |-> EmptyMap]
  /\ disk = [n \in Nodes |-> SourceDisk]
  /\ writes = [n \in Nodes |-> <<>>]
  /\ queue = [n \in Nodes |-> <<>>]
  /\ delivered = 0
  /\ now = 1
  /\ last = Idle

InitOffer == InitEngines(OfferConfigs)

NextOffer ==
  \/ \E text \in OfferTexts : HandleMessage(Self, "A", text)
  \/ Tick

SpecOffer == InitOffer /\ [][NextOffer]_vars

\* ------------------------------------------------------------------ SpecRecv
\* One engine, B, as the receiver of transfer x1: its peer A sends offers, chunks
\* with any index, data and declared hash, complete, reject and error in any
\* order; the host accepts, rejects and resumes.

\* The chunks a sender cuts from its longest file, and the indices a peer may name.
PeerFile == FileData(MaxFileLen)
PeerChunks == { readChunk(PeerFile, i, 2).data : i \in 0..(CeilDiv(MaxFileLen, 2) - 1) }
ChunkIndices == 0..CeilDiv(MaxFileLen, 2)
\* No data hashes to BadHash.
BadHash == sha256(<<>>) - 1

RecvOffers ==
  { Wire("offer", "x1", "A", Self, OfferPayload(k, 2, secret, None, None)) :
      k \in { 0, MaxFileLen }, secret \in { None, Some(SecretOf(Self)) } }

\* A chunk message declares its data's own hash, or a hash that is not the data's.
RecvChunks ==
  { Wire("chunk", "x1", "A", Self,
         [ index |-> i, data |-> toBase64(d), hash |-> sha256(d) ]) :
      i \in ChunkIndices, d \in PeerChunks }
  \cup
  { Wire("chunk", "x1", "A", Self,
         [ index |-> i, data |-> toBase64(readChunk(PeerFile, i, 2).data),
           hash |-> BadHash ]) :
      i \in ChunkIndices }

RecvControl ==
  { Wire("complete", "x1", "A", Self,
         [ totalChunks |-> CeilDiv(MaxFileLen, 2), hash |-> sha256(PeerFile) ]),
    Wire("reject", "x1", "A", Self, [ reason |-> Err("busy", <<>>) ]),
    Wire("error", "x1", "A", Self,
         [ code |-> "E", message |-> Err("boom", <<>>), recoverable |-> FALSE ]) }

RecvTexts == RecvOffers \cup RecvChunks \cup RecvControl

InitRecv == InitEngines({ PlainConfig(Self) })

NextRecv ==
  \/ \E text \in RecvTexts : HandleMessage(Self, "A", text)
  \/ \E r \in { None, Some(1) } : AcceptTransfer(Self, "x1", r)
  \/ RejectTransfer(Self, "x1", "no")
  \/ ResumeTransfer(Self, "x1")

SpecRecv == InitRecv /\ [][NextRecv]_vars

\* ------------------------------------------------------------------ SpecSend
\* One engine, B, as the sender of transfer x1 to A, cutting its files in chunks
\* of one byte: A answers with accept (with or without a resume point), acks
\* with any index and outcome, reject and error in any order; the host resumes.

AckIndices == -1..MaxFileLen

\* A transfer the other way, x2 from A to B, and A's accept of it, which is not
\* A's to send.
OtherWay ==
  { Wire("offer", "x2", "A", Self, OfferPayload(1, 1, None, None, None)),
    Wire("accept", "x2", "A", Self, [ ready |-> TRUE, resumeFrom |-> None ]) }

SendTexts ==
  { Wire("accept", "x1", "A", Self, [ ready |-> TRUE, resumeFrom |-> r ]) :
      r \in { None, Some(1) } }
  \cup
  { Wire("ack", "x1", "A", Self,
         [ index |-> i, received |-> ok,
           error |-> IF ok THEN None ELSE Some(Err("Hash mismatch", <<>>)) ]) :
      i \in AckIndices, ok \in BOOLEAN }
  \cup
  { Wire("reject", "x1", "A", Self, [ reason |-> Err("busy", <<>>) ]),
    Wire("error", "x1", "A", Self,
         [ code |-> "E", message |-> Err("boom", <<>>), recoverable |-> FALSE ]) }
  \cup
  OtherWay

InitSend ==
  InitEngines({ TransferManager(HostConfig(Self, None, << TrustedPeer("A", None) >>,
                                           None, None, 1)) })

NextSend ==
  \/ \E p \in SourcePaths : SendFile(Self, "x1", "A", p, FALSE)
  \/ \E text \in SendTexts : HandleMessage(Self, "A", text)
  \/ ResumeTransfer(Self, "x1")

SpecSend == InitSend /\ [][NextSend]_vars

\* ------------------------------------------------------------------ SpecRun
\* The two nodes of demo.ts: A, which holds B's secret, sends files to B; every
\* text handed to sendMessage is queued for its addressee and handed to
\* handleMessage once, in order.  A cuts chunks of one or of two bytes and may
\* stamp its offers with a secret TTL; B may limit the size it accepts.

RunConfigsA ==
  { TransferManager(HostConfig("A", None, << TrustedPeer("B", None) >>, None, ttl, c)) :
      ttl \in { None, Some(1) }, c \in { 1, 2 } }

RunConfigsB ==
  { TransferManager(HostConfig("B", None, <<>>, mx, None, 2)) :
      mx \in { None, Some(MaxFileLen - 1) } }

InitRun ==
  /\ \E a \in RunConfigsA, b \in RunConfigsB :
        config = [n \in Nodes |-> IF n = "A" THEN a ELSE b]
  /\ transfers = [n \in Nodes |-> EmptyMap]
  /\ assemblers = [n \in Nodes |-> EmptyMap]
  /\ filePaths = [n \in Nodes |-> EmptyMap]
  /\ disk = [n \in Nodes |-> IF n = "A" THEN SourceDisk ELSE EmptyMap]
  /\ writes = [n \in Nodes |-> <<>>]
  /\ queue = [n \in Nodes |-> <<>>]
  /\ delivered = 0
  /\ now = 1
  /\ last = Idle

DeliverNext == \E n \in Nodes : Deliver(n)

NextRun ==
  \/ \E id \in TransferIds, p \in SourcePaths : SendFile("A", id, "B", p, TRUE)
  \/ DeliverNext
  \/ Tick

\* A step of the host's loop, as the queues and the count of taken texts show it.
Taken == \E n \in Nodes : queue[n] # <<>> /\ delivered' = delivered + 1

\* The host's loop takes every queued text in the end: only Deliver changes
\* delivered, and it can do so whenever a queue holds a text.
SpecRun == InitRun /\ [][NextRun]_vars /\ WF_delivered(Taken)

\* ------------------------------------------------------------------ SpecResume
\* The run of demo.ts with one transfer, in which the host of either node calls
\* resumeTransfer at any moment, texts of the earlier attempt still queued.

\* The host of node n calls resumeTransfer; what the engine sends is queued.
Resume(n, transferId) ==
  /\ Len(queue["A"]) + Len(queue["B"]) < MaxQueued
  /\ delivered < MaxDelivered
  /\ \E e \in { resumeTransfer(config[n], now, Engine(n), transferId) } :
       Commit(n, e, "resumeTransfer", [ transferId |-> transferId ],
              Pushed(queue, n, e.sent), 0)

InitResume ==
  /\ config = [n \in Nodes |->
                 IF n = "A"
                 THEN TransferManager(HostConfig("A", None, << TrustedPeer("B", None) >>,
                                                 None, None, 1))
                 ELSE PlainConfig("B")]
  /\ transfers = [n \in Nodes |-> EmptyMap]
  /\ assemblers = [n \in Nodes |-> EmptyMap]
  /\ filePaths = [n \in Nodes |-> EmptyMap]
  /\ disk = [n \in Nodes |-> IF n = "A" THEN SourceDisk ELSE EmptyMap]
  /\ writes = [n \in Nodes |-> <<>>]
  /\ queue = [n \in Nodes |-> <<>>]
  /\ delivered = 0
  /\ now = 1
  /\ last = Idle

NextResume ==
  \/ \E p \in SourcePaths : SendFile("A", "x1", "B", p, TRUE)
  \/ DeliverNext
  \/ \E n \in Nodes : Resume(n, "x1")
  \/ \E n \in Nodes : GetResumableTransfers(n)

SpecResume == InitResume /\ [][NextResume]_vars /\ WF_delivered(Taken)

\* ------------------------------------------------------------------ Spec
\* One engine, B, that receives x1 and sends x2, with every kind of text coming
\* in: the messages of both roles, the same messages addressed to another node,
\* and texts that are no protocol message.

HereTexts ==
  { Wire("offer", "x1", "A", Self, OfferPayload(MaxFileLen, 2, secret, None, None)) :
      secret \in { None, Some(SecretOf(Self)) } }
  \cup
  { Wire("chunk", "x1", "A", Self,
         [ index |-> i, data |-> toBase64(readChunk(PeerFile, i, 2).data),
           hash |-> IF good THEN sha256(readChunk(PeerFile, i, 2).data) ELSE BadHash ]) :
      i \in { 0, 1 }, good \in BOOLEAN }
  \cup
  RecvControl
  \cup
  { Wire("accept", "x2", "A", Self, [ ready |-> TRUE, resumeFrom |-> None ]) }
  \cup
  { Wire("ack", "x2", "A", Self, [ index |-> i, received |-> TRUE, error |-> None ]) :
      i \in { -1, 0 } }

\* The same messages, addressed to a node that is not this one.
ElsewhereTexts == { [ t EXCEPT !.b64.json.to = "C" ] : t \in HereTexts }

Init ==
  InitEngines({ TransferManager(HostConfig(Self, None, << TrustedPeer("A", None) >>,
                                           None, None, 1)) })

Next ==
  \/ \E text \in HereTexts \cup ElsewhereTexts \cup Chatter("x1") :
       HandleMessage(Self, "A", text)
  \/ SendFile(Self, "x2", "A", << "src", 1 >>, FALSE)
  \/ \E id \in TransferIds : AcceptTransfer(Self, id, None)
  \/ \E id \in TransferIds : RejectTransfer(Self, id, "no")
  \/ \E id \in TransferIds : ResumeTransfer(Self, id)

Spec == Init /\ [][Next]_vars

\* ------------------------------------------------------------------ SpecPeer
\* One engine, B, with an incoming transfer x1 and an outgoing transfer x2, and a
\* peer that sends whatever it likes: every type of message for either transfer,
\* known or not yet known, in any order and any number of times, with its
\* payload or without one.

MessageTypes == { "offer", "accept", "reject", "chunk", "ack", "complete", "error" }

\* The chat text of a message whose JSON has no payload.
Bare(type, id) ==
  [ prefix |-> OCFT_PREFIX,
    b64 |-> serialize([ type |-> type, transferId |-> id, from |-> "A", to |-> Self,
                        version |-> OCFT_VERSION ]) ]

BareTexts == { Bare(type, id) : type \in MessageTypes, id \in TransferIds }

PeerTexts ==
  HereTexts
  \cup
  { Wire("reject", "x2", "A", Self, [ reason |-> Err("busy", <<>>) ]),
    Wire("error", "x2", "A", Self,
         [ code |-> "E", message |-> Err("boom", <<>>), recoverable |-> FALSE ]) }
  \cup
  BareTexts

InitPeer == Init

NextPeer ==
  \/ \E text \in PeerTexts : HandleMessage(Self, "A", text)
  \/ SendFile(Self, "x2", "A", << "src", 1 >>, FALSE)
  \/ AcceptTransfer(Self, "x1", None)

SpecPeer == InitPeer /\ [][NextPeer]_vars

\* ------------------------------------------------------------------ SpecChunks
\* The chunk codec alone, on node B: a file of any content of up to MaxFileLen
\* bytes, cut in chunks of any size from 1 to one more than MaxFileLen, and an
\* assembler made from the file's getFileInfo.  The chunks that readChunk cuts are
\* added to the assembler one by one, in any order and any number of times, and
\* assemble is called at any moment.

FileContents == UNION { [1..k -> ByteVals] : k \in 0..MaxFileLen }
ChunkSizes == 1..(MaxFileLen + 1)
ChunkSource == << "src", 0 >>
ChunkTarget == << "out", 0 >>

AddChunk(n, id, index) ==
  /\ id \in DOMAIN assemblers[n]
  /\ index \in 0..(assemblers[n][id].totalChunks - 1)
  /\ LET chunk == readChunk(disk[n][ChunkSource], index, config[n].chunkSize)
         r == addChunk(assemblers[n][id], chunk.index, chunk.data, chunk.hash)
     IN  Commit(n, [Engine(n) EXCEPT !.assemblers = MapSet(@, id, r.asm),
                                     !.ret = IF r.ok THEN "true" ELSE "false"],
                "addChunk", [ transferId |-> id, index |-> index ], queue, 0)

Assemble(n, id) ==
  /\ id \in DOMAIN assemblers[n]
  /\ Len(writes[n]) < MaxWrites
  /\ LET assembler == assemblers[n][id]
         result == assemble(assembler)
         e1 == IF result.success
               THEN [Engine(n) EXCEPT
                       !.disk = MapSet(@, assembler.outputPath, Val(result.write)),
                       !.writes = Append(@, [ transferId |-> id,
                                              path |-> assembler.outputPath,
                                              data |-> Val(result.write) ]),
                       !.ret = "true"]
               ELSE [Engine(n) EXCEPT !.ret = "false"]
     IN  Commit(n, e1, "assemble", [ transferId |-> id ], queue, 0)

\* The host reads the assembler's progress: the kind of the value is recorded as
\* the call's result, the number itself in the returned list.
GetProgress(n, id) ==
  /\ id \in DOMAIN assemblers[n]
  /\ LET progress == getProgress(assemblers[n][id])
     IN  Commit(n, [Engine(n) EXCEPT !.ret = progress.kind,
                                     !.list = IF progress.kind = "number"
                                              THEN { progress.value } ELSE {}],
                "getProgress", [ transferId |-> id ], queue, 0)

\* The host reads the chunk of any index, within the file or not: readChunk has
\* no check of the index and returns what subarray cuts.
ChunkIndexRange == (-1)..(MaxFileLen + 1)

ReadChunk(n, index) ==
  /\ ChunkSource \in DOMAIN disk[n]
  /\ LET chunk == readChunk(disk[n][ChunkSource], index, config[n].chunkSize)
     IN  Commit(n, [Engine(n) EXCEPT !.ret = "chunk", !.list = { chunk }],
                "readChunk", [ index |-> index ], queue, 0)

InitChunks ==
  /\ \E data \in FileContents, c \in ChunkSizes :
       LET fileInfo == getFileInfo(ChunkSource, data, c)
       IN  /\ config = [n \in Nodes |->
                          TransferManager(HostConfig(n, None, <<>>, None, None, c))]
           /\ disk = [n \in Nodes |->
                        IF n = Self THEN MapSet(EmptyMap, ChunkSource, data) ELSE EmptyMap]
           /\ assemblers = [n \in Nodes |->
                 IF n = Self
                 THEN MapSet(EmptyMap, "x1",
                             ChunkAssembler(ChunkTarget, fileInfo.hash, fileInfo.totalChunks))
                 ELSE EmptyMap]
  /\ transfers = [n \in Nodes |-> EmptyMap]
  /\ filePaths = [n \in Nodes |-> EmptyMap]
  /\ writes = [n \in Nodes |-> <<>>]
  /\ queue = [n \in Nodes |-> <<>>]
  /\ delivered = 0
  /\ now = 1
  /\ last = Idle

NextChunks ==
  \/ \E index \in 0..(MaxFileLen - 1) : AddChunk(Self, "x1", index)
  \/ Assemble(Self, "x1")
  \/ GetProgress(Self, "x1")
  \/ \E index \in ChunkIndexRange : ReadChunk(Self, index)

SpecChunks == InitChunks /\ [][NextChunks]_vars

\* ------------------------------------------------------------------ SpecCodec
\* The message codec alone, on node B: the host builds messages of every type,
\* with any transferId (the empty string included) and payload, encodes them for
\* the chat and queues the text; texts that come from elsewhere are queued too;
\* the head of the queue is decoded.

CodecIds == { "x1", "" }

CodecPayloads(type) ==
  CASE type = "offer" -> { OfferPayload(k, 2, secret, None, None) :
                             k \in { 0, MaxFileLen }, secret \in { None, Some("sB") } }
    [] type = "accept" -> { [ ready |-> TRUE, resumeFrom |-> r ] : r \in { None, Some(1) } }
    [] type = "reject" -> { [ reason |-> Err("busy", <<>>) ] }
    [] type = "chunk" -> { [ index |-> 0, data |-> toBase64(d), hash |-> sha256(d) ] :
                             d \in { <<>>, << 1, 2 >> } }
    [] type = "ack" -> { [ index |-> i, received |-> TRUE, error |-> None ] : i \in { -1, 0 } }
    [] type = "complete" -> { [ totalChunks |-> 2, hash |-> sha256(<< 1, 2 >>) ] }
    [] OTHER -> { [ code |-> "E", message |-> Err("boom", <<>>), recoverable |-> FALSE ] }

BuiltMessages ==
  UNION { { createMessage(type, id, "A", Self, payload) : payload \in CodecPayloads(type) } :
            type \in MessageTypes, id \in CodecIds }

\* Texts no builder made: chat without the prefix, a prefixed body that is no
\* Base64 of JSON, JSON that is no object, JSON without version, type or
\* transferId.
ForeignTexts ==
  Chatter("x1")
  \cup
  { [ prefix |-> OCFT_PREFIX, b64 |-> serialize(<<>>) ],
    [ prefix |-> OCFT_PREFIX,
      b64 |-> serialize([ version |-> OCFT_VERSION, transferId |-> "x1",
                          from |-> "A", to |-> Self ]) ],
    [ prefix |-> OCFT_PREFIX,
      b64 |-> serialize([ version |-> OCFT_VERSION, type |-> "ack",
                          from |-> "A", to |-> Self ]) ] }

Said(n, op, arg, text) ==
  /\ Len(queue[n]) < MaxWrites
  /\ queue' = [queue EXCEPT ![n] = Append(@, [ from |-> "A", text |-> text ])]
  /\ last' = [ Idle EXCEPT !.op = op, !.node = n, !.arg = arg ]
  /\ UNCHANGED << config, transfers, assemblers, filePaths, disk, writes, delivered, now >>

EncodeForChat(n, msg) == Said(n, "encodeForChat", [ msg |-> msg ], encodeForChat(msg))

Chat(n, text) == Said(n, "chat", [ text |-> text ], text)

DecodeFromChat(n) ==
  /\ queue[n] # <<>>
  /\ LET text == Head(queue[n]).text
         decoded == decodeFromChat(text)
     IN  last' = [ Idle EXCEPT !.op = "decodeFromChat", !.node = n,
                               !.arg = [ text |-> text ],
                               !.ret = IF IsSome(decoded) THEN "message" ELSE "null",
                               !.list = IF IsSome(decoded) THEN { Val(decoded) } ELSE {} ]
  /\ queue' = [queue EXCEPT ![n] = Tail(@)]
  /\ UNCHANGED << config, transfers, assemblers, filePaths, disk, writes, delivered, now >>

InitCodec == InitEngines({ PlainConfig(Self) })

NextCodec ==
  \/ \E msg \in BuiltMessages : EncodeForChat(Self, msg)
  \/ \E text \in ForeignTexts : Chat(Self, text)
  \/ DecodeFromChat(Self)

SpecCodec == InitCodec /\ [][NextCodec]_vars

\* ------------------------------------------------------------------ SpecIO
\* One engine, B, sending x2 from a file that may be removed at any moment, and
\* receiving x1 into a download directory that may not exist.

IOConfigs ==
  { [ TransferManager(HostConfig(Self, None, << TrustedPeer("A", None) >>,
                                 None, None, 1)) EXCEPT !.downloadDir = d ] :
      d \in { "dl", "gone" } }

IOTexts ==
  { Wire("offer", "x1", "A", Self,
         OfferPayload(MaxFileLen, 2, Some(SecretOf(Self)), None, None)),
    Wire("complete", "x1", "A", Self,
         [ totalChunks |-> CeilDiv(MaxFileLen, 2), hash |-> sha256(PeerFile) ]),
    Wire("accept", "x2", "A", Self, [ ready |-> TRUE, resumeFrom |-> None ]) }
  \cup
  { Wire("chunk", "x1", "A", Self,
         [ index |-> i, data |-> toBase64(readChunk(PeerFile, i, 2).data),
           hash |-> sha256(readChunk(PeerFile, i, 2).data) ]) :
      i \in 0..(CeilDiv(MaxFileLen, 2) - 1) }
  \cup
  { Wire("ack", "x2", "A", Self,
         [ index |-> i, received |-> ok,
           error |-> IF ok THEN None ELSE Some(Err("Hash mismatch", <<>>)) ]) :
      i \in { 0, 1 }, ok \in BOOLEAN }

\* The file at `path` is removed from the disk of node n.
Unlink(n, path) ==
  /\ path \in DOMAIN disk[n]
  /\ disk' = [disk EXCEPT ![n] = [q \in DOMAIN disk[n] \ { path } |-> disk[n][q]]]
  /\ last' = [ Idle EXCEPT !.op = "unlink", !.node = n, !.arg = [ path |-> path ] ]
  /\ UNCHANGED << config, transfers, assemblers, filePaths, writes, queue, delivered, now >>

InitIO == InitEngines(IOConfigs)

NextIO ==
  \/ SendFile(Self, "x2", "A", << "src", 2 >>, FALSE)
  \/ \E text \in IOTexts : HandleMessage(Self, "A", text)
  \/ Unlink(Self, << "src", 2 >>)

SpecIO == InitIO /\ [][NextIO]_vars

\* ------------------------------------------------------------------ SpecStranger
\* One engine, B, receiving x1 from A and sending x2 to A, while a third node, C,
\* sends messages that name the same transfers: handleMessage is called with
\* C as fromId and the messages carry C as their `from`.

StrangerTexts(from) ==
  { Wire("offer", "x1", from, Self,
         OfferPayload(MaxFileLen, 2, Some(SecretOf(Self)), None, None)),
    Wire("complete", "x1", from, Self,
         [ totalChunks |-> CeilDiv(MaxFileLen, 2), hash |-> sha256(PeerFile) ]),
    Wire("reject", "x2", from, Self, [ reason |-> Err("busy", <<>>) ]),
    Wire("error", "x1", from, Self,
         [ code |-> "E", message |-> Err("boom", <<>>), recoverable |-> FALSE ]),
    Wire("accept", "x2", from, Self, [ ready |-> TRUE, resumeFrom |-> None ]),
    Wire("ack", "x2", from, Self, [ index |-> 0, received |-> TRUE, error |-> None ]) }
  \cup
  { Wire("chunk", "x1", from, Self,
         [ index |-> i, data |-> toBase64(readChunk(PeerFile, i, 2).data),
           hash |-> sha256(readChunk(PeerFile, i, 2).data) ]) :
      i \in 0..(CeilDiv(MaxFileLen, 2) - 1) }

InitStranger == Init

NextStranger ==
  \/ \E from \in Peers : \E text \in StrangerTexts(from) : HandleMessage(Self, from, text)
  \/ SendFile(Self, "x2", "A", << "src", 1 >>, FALSE)

SpecStranger == InitStranger /\ [][NextStranger]_vars

\* ------------------------------------------------------------------ observations

\* The message that the last handleMessage call dispatched, if it dispatched one.
Dispatched(l) ==
  /\ l.op = "handleMessage"
  /\ IsSome(decodeFromChat(l.arg.text))
  /\ Val(decodeFromChat(l.arg.text)).to = l.node

MsgOf(l) == Val(decodeFromChat(l.arg.text))

Handled(l, type) == Dispatched(l) /\ MsgOf(l).type = type

\* The messages the last operation handed to sendMessage, decoded, with the
\* addressee given to sendMessage.
SentOf(l) ==
  [ i \in 1..Len(l.sent) |->
      [ to |-> l.sent[i].to, msg |-> Val(decodeFromChat(l.sent[i].text)) ] ]

SentTypes(l) == [ i \in 1..Len(l.sent) |-> SentOf(l)[i].msg.type ]

\* ------------------------------------------------------------------ claims on offers

\* What the claims call the receiver's decision on an offer m at the present time.
\* The size check of handleOffer lets the offer m through.
PassedSizeCheck(m) ==
  ~IsSome(SizeLimit(config[Self])) \/ m.payload.size <= Val(SizeLimit(config[Self]))
SecretMatches(m) == m.payload.secret = Some(config[Self].secret)
TTLPassed(m) == IsSome(m.payload.secretTTL) /\ now > Val(m.payload.secretTTL)
SenderTrusted(m) ==
  \E i \in 1..Len(config[Self].trustedPeers) :
    LET p == config[Self].trustedPeers[i]
    IN  p.id = m.from /\ (p.expiresAt = None \/ now < Val(p.expiresAt))

\* The transfer of m is in state `state` and the operation sent exactly `types`.
Outcome(m, state, types) ==
  /\ m.transferId \in DOMAIN transfers[Self]
  /\ transfers[Self][m.transferId].state = state
  /\ transfers[Self][m.transferId].direction = "receive"
  /\ SentTypes(last) = types
  /\ \A i \in 1..Len(last.sent) :
       /\ SentOf(last)[i].to = m.from
       /\ SentOf(last)[i].msg.to = m.from
       /\ SentOf(last)[i].msg.transferId = m.transferId

C7_WitnessExpired ==
  /\ Handled(last, "offer") /\ ~config[Self].autoAccept
  /\ SecretMatches(MsgOf(last)) /\ TTLPassed(MsgOf(last))
  /\ Outcome(MsgOf(last), "pending", <<>>)

C8_WitnessExpired ==
  /\ Handled(last, "offer") /\ PassedSizeCheck(MsgOf(last))
  /\ ~SecretMatches(MsgOf(last))
  /\ config[Self].autoAccept /\ ~SenderTrusted(MsgOf(last))
  /\ \E i \in 1..Len(config[Self].trustedPeers) :
       config[Self].trustedPeers[i].id = MsgOf(last).from
  /\ Outcome(MsgOf(last), "pending", <<>>)

\* C9, as stated: for every configured maximum file size, an offer larger than
\* the maximum is answered with exactly one
\* reject (reason: file too large) to the offering peer and changes no transfer
\* and no assembler; an offer of at most the maximum leaves a receive transfer
\* built from the offer, pending unless the same handler went on to accept it.
C9_AsStated ==
  [][ Handled(last', "offer") =>
        LET m == MsgOf(last')
            id == m.transferId
        IN  IF m.payload.size > config[Self].maxFileSize
            THEN /\ Len(last'.sent) = 1
                 /\ SentOf(last')[1].to = m.from
                 /\ SentOf(last')[1].msg.type = "reject"
                 /\ SentOf(last')[1].msg.to = m.from
                 /\ SentOf(last')[1].msg.transferId = id
                 /\ SentOf(last')[1].msg.payload.reason.text = "File too large"
                 /\ transfers' = transfers
                 /\ assemblers' = assemblers
            ELSE /\ id \in DOMAIN transfers'[Self]
                 /\ transfers'[Self][id].direction = "receive"
                 /\ transfers'[Self][id].peerId = m.from
                 /\ transfers'[Self][id].size = m.payload.size
                 /\ transfers'[Self][id].hash = m.payload.hash
                 /\ transfers'[Self][id].totalChunks = m.payload.totalChunks
                 /\ transfers'[Self][id].receivedChunks = {}
                 /\ \/ transfers'[Self][id].state = "pending" /\ last'.sent = <<>>
                    \/ transfers'[Self][id].state = "accepted"
                         /\ SentTypes(last') = << "accept" >>
                 /\ "reject" \notin { SentTypes(last')[i] : i \in 1..Len(last'.sent) }
    ]_vars

\* ------------------------------------------------------------------ claims on the receiver

\* The bytes of the chunks 0..total-1 of a chunk map, in index order.
RECURSIVE InOrder(_, _, _)
InOrder(chunks, i, total) ==
  IF i >= total THEN <<>> ELSE chunks[i] \o InOrder(chunks, i + 1, total)

AllPresent(asm) == \A i \in 0..(asm.totalChunks - 1) : i \in DOMAIN asm.chunks

\* The assembler of the transfer written to holds every index of [0, totalChunks)
\* and its chunks in index order hash to the hash it was created with.
Assembles(asm) ==
  /\ AllPresent(asm)
  /\ sha256(InOrder(asm.chunks, 0, asm.totalChunks)) = asm.expectedHash

\* C2: the receiver writes a file only while handling a complete for a transfer
\* whose assembler holds every index of [0, totalChunks) and whose chunks, in
\* index order, hash to the whole-file hash the assembler took from the offer;
\* what it writes is that concatenation, once, at the assembler's path.  A
\* complete that finds chunks missing or the hash different writes nothing.
C2_WriteOnlyVerified ==
  [][ /\ (disk' # disk \/ writes' # writes) =>
           /\ Handled(last', "complete")
           /\ MsgOf(last').transferId \in DOMAIN assemblers[Self]
           /\ LET asm == assemblers[Self][MsgOf(last').transferId]
                  data == InOrder(asm.chunks, 0, asm.totalChunks)
              IN  /\ Assembles(asm)
                  /\ writes'[Self] = Append(writes[Self],
                                            [ transferId |-> MsgOf(last').transferId,
                                              path |-> asm.outputPath,
                                              data |-> data ])
                  /\ disk'[Self] = MapSet(disk[Self], asm.outputPath, data)
      /\ ( /\ Handled(last', "complete")
           /\ MsgOf(last').transferId \in DOMAIN assemblers[Self]
           /\ ~Assembles(assemblers[Self][MsgOf(last').transferId]) ) =>
           (disk' = disk /\ writes' = writes)
    ]_vars

\* C2's cases: a file of two chunks written; a complete refused for a missing
\* chunk although as many chunks as totalChunks are held; a complete refused
\* for the whole-file hash.
C2_Witness ==
  /\ Handled(last, "complete")
  /\ Len(writes[Self]) = 1
  /\ writes[Self][1].data = PeerFile
  /\ disk[Self][<< "dl", MaxFileLen >>] = PeerFile

C2_WitnessMissing ==
  /\ Handled(last, "complete")
  /\ writes[Self] = <<>>
  /\ "x1" \in DOMAIN assemblers[Self]
  /\ isComplete(assemblers[Self]["x1"])
  /\ ~AllPresent(assemblers[Self]["x1"])
  /\ transfers[Self]["x1"].state = "failed"

C2_WitnessHash ==
  /\ Handled(last, "complete")
  /\ writes[Self] = <<>>
  /\ "x1" \in DOMAIN assemblers[Self]
  /\ AllPresent(assemblers[Self]["x1"])
  /\ ~Assembles(assemblers[Self]["x1"])
  /\ transfers[Self]["x1"].state = "failed"

\* The ack that answers chunk message m with the given outcome.
IsAck(s, m, received) ==
  /\ s.to = m.from
  /\ s.msg.type = "ack"
  /\ s.msg.transferId = m.transferId
  /\ s.msg.to = m.from
  /\ s.msg.payload.index = m.payload.index
  /\ s.msg.payload.received = received
  /\ s.msg.payload.error = IF received THEN None ELSE Some(Err("Hash mismatch", <<>>))

\* C3: for a receive transfer that has an assembler, a chunk message whose data
\* does not hash to its declared hash leaves the assembler and receivedChunks as
\* they were and is answered with exactly one ack{index, received: false,
\* error: 'Hash mismatch'}; a chunk message whose data does hash to it (also for
\* an index refused before) is stored under its index, its index is added to
\* receivedChunks, and it is answered with exactly one ack{index, received: true}.
C3_ChunkHashGate ==
  [][ ( /\ Handled(last', "chunk")
        /\ MsgOf(last').transferId \in DOMAIN transfers[Self]
        /\ transfers[Self][MsgOf(last').transferId].direction = "receive"
        /\ MsgOf(last').transferId \in DOMAIN assemblers[Self] ) =>
        LET m == MsgOf(last')
            id == m.transferId
            data == fromBase64(m.payload.data)
        IN  IF sha256(data) # m.payload.hash
            THEN /\ assemblers' = assemblers
                 /\ transfers'[Self][id].receivedChunks = transfers[Self][id].receivedChunks
                 /\ Len(last'.sent) = 1
                 /\ IsAck(SentOf(last')[1], m, FALSE)
            ELSE /\ assemblers'[Self][id].chunks =
                       MapSet(assemblers[Self][id].chunks, m.payload.index, data)
                 /\ transfers'[Self][id].receivedChunks =
                       transfers[Self][id].receivedChunks \cup { m.payload.index }
                 /\ Len(last'.sent) = 1
                 /\ IsAck(SentOf(last')[1], m, TRUE)
    ]_vars

\* C3's cases: a chunk refused for its hash, its index still absent; and a chunk
\* stored and acknowledged.
C3_Witness ==
  /\ Handled(last, "chunk")
  /\ MsgOf(last).payload.hash # sha256(fromBase64(MsgOf(last).payload.data))
  /\ Len(last.sent) = 1
  /\ IsAck(SentOf(last)[1], MsgOf(last), FALSE)
  /\ "x1" \in DOMAIN assemblers[Self]
  /\ MsgOf(last).payload.index \notin DOMAIN assemblers[Self]["x1"].chunks
  /\ transfers[Self]["x1"].receivedChunks # {}

C3_WitnessStored ==
  /\ Handled(last, "chunk")
  /\ Len(last.sent) = 1
  /\ IsAck(SentOf(last)[1], MsgOf(last), TRUE)
  /\ MsgOf(last).payload.index \in transfers[Self]["x1"].receivedChunks

\* ------------------------------------------------------------------ claims on the sender

\* The chunk message that carries chunk k of transfer t's file.
IsChunk(s, t, k) ==
  /\ s.to = t.peerId
  /\ s.msg.type = "chunk"
  /\ s.msg.transferId = t.id
  /\ s.msg.to = t.peerId
  /\ s.msg.payload.index = k
  /\ fromBase64(s.msg.payload.data) =
       readChunk(disk[Self][Val(t.localPath)], k, t.chunkSize).data
  /\ s.msg.payload.hash = sha256(fromBase64(s.msg.payload.data))

\* The types of the messages sent by the operation l, as a set.
SentKinds(l) == { SentTypes(l)[i] : i \in 1..Len(l.sent) }

\* What C5 says of one step on a send transfer, of the files of minChunks chunks
\* or more: the accept without a resume point brings chunk 0 and nothing else
\* (no chunk where the file has none); the ack{received: true} for index i that
\* arrives with exactly 0..i-1 acknowledged brings chunk i+1 alone and leaves the
\* state transferring while i+1 < N, and brings complete alone and the state
\* completing when i+1 = N.
InOrderStep(minChunks) ==
  LET m == MsgOf(last')
      id == m.transferId
      t == transfers[Self][id]
      u == transfers'[Self][id]
      N == t.totalChunks
  IN  /\ ( /\ Handled(last', "accept")
           /\ id \in DOMAIN transfers[Self]
           /\ t.direction = "send" /\ t.state = "pending"
           /\ m.payload.resumeFrom = None
           /\ N >= minChunks ) =>
             /\ u.state = "transferring"
             /\ IF N >= 1
                THEN Len(last'.sent) = 1 /\ IsChunk(SentOf(last')[1], t, 0)
                ELSE "chunk" \notin SentKinds(last')
      /\ ( /\ Handled(last', "ack")
           /\ m.payload.received
           /\ id \in DOMAIN transfers[Self]
           /\ t.direction = "send" /\ t.state = "transferring"
           /\ m.payload.index \in 0..(N - 1)
           /\ t.receivedChunks = 0..(m.payload.index - 1)
           /\ N >= minChunks ) =>
             /\ u.receivedChunks = 0..m.payload.index
             /\ Len(last'.sent) = 1
             /\ IF m.payload.index + 1 < N
                THEN /\ IsChunk(SentOf(last')[1], t, m.payload.index + 1)
                     /\ u.state = "transferring"
                ELSE /\ SentTypes(last') = << "complete" >>
                     /\ SentOf(last')[1].to = t.peerId
                     /\ SentOf(last')[1].msg.transferId = id
                     /\ u.state = "completing"

\* C5, as stated: for a send transfer with totalChunks = N accepted from index
\* 0, with acks{received: true} arriving in order 0..N-1, the sender emits the
\* chunks 0..N-1 in order, one per ack, and enters completing (sending complete)
\* exactly upon the N-th ack; for every N a file can have, 0 included.
C5_AsStated == [][InOrderStep(0)]_vars

\* C6: on the sender in state transferring, an ack{received: false} for index k
\* makes the engine send exactly one message, the chunk with index k, and leaves
\* the transfer (its state and receivedChunks among the rest) as it was.
C6_NackResends ==
  [][ ( /\ Handled(last', "ack")
        /\ ~MsgOf(last').payload.received
        /\ MsgOf(last').transferId \in DOMAIN transfers[Self]
        /\ transfers[Self][MsgOf(last').transferId].direction = "send"
        /\ transfers[Self][MsgOf(last').transferId].state = "transferring" ) =>
        LET m == MsgOf(last')
            t == transfers[Self][m.transferId]
        IN  /\ Len(last'.sent) = 1
            /\ IsChunk(SentOf(last')[1], t, m.payload.index)
            /\ transfers' = transfers
    ]_vars

\* C6's case: chunk 1 of a file of several chunks sent again on a nack, with
\* chunk 0 acknowledged before.
C6_Witness ==
  /\ Handled(last, "ack")
  /\ ~MsgOf(last).payload.received
  /\ MsgOf(last).payload.index = 1
  /\ "x1" \in DOMAIN transfers[Self]
  /\ transfers[Self]["x1"].state = "transferring"
  /\ transfers[Self]["x1"].receivedChunks = { 0 }
  /\ transfers[Self]["x1"].totalChunks > 2
  /\ Len(last.sent) = 1
  /\ IsChunk(SentOf(last)[1], transfers[Self]["x1"], 1)

\* ------------------------------------------------------------------ claims on a two-node run

\* A has started transfer id and its file has at least one chunk.
Started(id) ==
  /\ id \in DOMAIN transfers["A"]
  /\ transfers["A"][id].totalChunks >= 1

\* A's sendFile has just returned for transfer id, of a file with a chunk or more.
Sent(id) ==
  /\ last.op = "sendFile"
  /\ last.node = "A"
  /\ last.arg.transferId = id
  /\ last.threw = None
  /\ Started(id)

\* Transfer id is completed on both nodes and B has written A's bytes for it.
Done(id) ==
  /\ id \in DOMAIN transfers["A"]
  /\ transfers["A"][id].state = "completed"
  /\ id \in DOMAIN transfers["B"]
  /\ transfers["B"][id].state = "completed"
  /\ \E i \in 1..Len(writes["B"]) :
       /\ writes["B"][i].transferId = id
       /\ writes["B"][i].data = disk["A"][filePaths["A"][id]]
       /\ writes["B"][i].path \in DOMAIN disk["B"]
       /\ disk["B"][writes["B"][i].path] = disk["A"][filePaths["A"][id]]

\* B has just handled the offer of transfer id, after the offer's secretTTL passed.
OfferExpired(id) ==
  /\ Handled(last, "offer")
  /\ last.node = "B"
  /\ MsgOf(last).transferId = id
  /\ TTLPassed(MsgOf(last))

\* C1, as stated: with delivery exactly once and in order, B's secret in A's trust
\* store and a file of at least one chunk, a sendFile leads to the transfer being
\* completed on A and on B with B's file equal to A's.
C1_AsStated == \A id \in TransferIds : Sent(id) ~> Done(id)

\* C1, amended: the same, provided the file is no larger than B's maximum file
\* size and the offer reaches B before its secretTTL, if it has one, has passed.
C1_Completes ==
  \A id \in TransferIds :
    (Sent(id) /\ transfers["A"][id].size <= config["B"].maxFileSize)
      ~> (Done(id) \/ OfferExpired(id))

\* C1's case: a file of two chunks or more, sent with a secret TTL to a receiver
\* that limits the size, completed on both nodes and written.
C1_Witness ==
  /\ Started("x1")
  /\ transfers["A"]["x1"].totalChunks >= 2
  /\ IsSome(config["A"].secretTTL)
  /\ config["B"].maxFileSize = MaxFileLen - 1
  /\ Done("x1")

\* The texts of one type queued for node n that belong to transfer id.
Queued(n, id, type) ==
  { i \in 1..Len(queue[n]) :
      LET m == Val(decodeFromChat(queue[n][i].text))
      IN  m.transferId = id /\ m.type = type }

\* The chunk messages of transfer id that A has sent and for which it has not
\* yet received the ack: the chunk is queued for B, or its ack is queued for A.
Unacked(id) == Cardinality(Queued("B", id, "chunk")) + Cardinality(Queued("A", id, "ack"))

\* C4: in a run with delivery exactly once and in order and no resumeTransfer,
\* at most one chunk message of a transfer is sent and not yet acknowledged, and
\* a chunk with index i+1 is sent only in handling ack{index: i, received: true}
\* of that transfer.
C4_StopAndWait ==
  [][ /\ \A id \in TransferIds : Unacked(id)' <= 1
      /\ \A k \in 1..Len(last'.sent) :
           LET s == SentOf(last')[k].msg
           IN  (s.type = "chunk" /\ s.payload.index >= 1) =>
                 /\ Handled(last', "ack")
                 /\ last'.node = "A"
                 /\ MsgOf(last').transferId = s.transferId
                 /\ MsgOf(last').payload.index = s.payload.index - 1
                 /\ MsgOf(last').payload.received
    ]_vars

\* C4's case: two transfers under way at once, each with its one chunk in
\* flight, the second chunk of one of them just sent on the ack of the first.
C4_Witness ==
  /\ Unacked("x1") = 1
  /\ Unacked("x2") = 1
  /\ Handled(last, "ack")
  /\ last.node = "A"
  /\ MsgOf(last).payload.index = 0
  /\ SentTypes(last) = << "chunk" >>
  /\ SentOf(last)[1].msg.payload.index = 1

\* ------------------------------------------------------------------ claims on handleMessage

\* The text is a protocol message: prefixed, decodable, with version, type and
\* transferId.
IsProtocolMessage(text) == IsSome(decodeFromChat(text))

\* C10, as stated: handleMessage returns false for a text that does not start
\* with the protocol prefix; for a valid protocol message whose `to` is not this
\* node's id it returns true, changes no transfer and no assembler and sends
\* nothing.
C10_AsStated ==
  [][ last'.op = "handleMessage" =>
        LET text == last'.arg.text
        IN  /\ ~startsWith(text, OCFT_PREFIX) => last'.ret = "false"
            /\ (IsProtocolMessage(text) /\ Val(decodeFromChat(text)).to # last'.node) =>
                 /\ last'.ret = "true"
                 /\ transfers' = transfers
                 /\ assemblers' = assemblers
                 /\ last'.sent = <<>>
    ]_vars

\* ------------------------------------------------------------------ claims on the host's calls

\* The host's call l.op on transfer l.arg.transferId finds it a receive transfer
\* in state pending.
OnPending(l, op) ==
  /\ l.op = op
  /\ l.arg.transferId \in DOMAIN transfers[l.node]
  /\ transfers[l.node][l.arg.transferId].direction = "receive"
  /\ transfers[l.node][l.arg.transferId].state = "pending"

\* The operation l sent one message, of the given type, for transfer t to its peer.
SentOne(l, type, t) ==
  /\ Len(l.sent) = 1
  /\ SentOf(l)[1].to = t.peerId
  /\ SentOf(l)[1].msg.type = type
  /\ SentOf(l)[1].msg.transferId = t.id
  /\ SentOf(l)[1].msg.from = l.node
  /\ SentOf(l)[1].msg.to = t.peerId

\* C11: acceptTransfer on a receive transfer in state pending does not throw,
\* sets the state to accepted, gives the transfer a new assembler with no chunk
\* (built from the transfer's hash and totalChunks) and sends exactly one accept
\* that carries the given resumeFrom; rejectTransfer on such a transfer does not
\* throw, sets the state to rejected, records the reason and sends exactly one
\* reject with that reason.
C11_AcceptReject ==
  [][ /\ OnPending(last', "acceptTransfer") =>
           LET id == last'.arg.transferId
               t == transfers[Self][id]
           IN  /\ last'.threw = None
               /\ transfers'[Self][id].state = "accepted"
               /\ id \in DOMAIN assemblers'[Self]
               /\ assemblers'[Self][id] =
                    ChunkAssembler(<< config[Self].downloadDir, t.filename >>,
                                   t.hash, t.totalChunks)
               /\ SentOne(last', "accept", t)
               /\ SentOf(last')[1].msg.payload.resumeFrom = last'.arg.resumeFrom
      /\ OnPending(last', "rejectTransfer") =>
           LET id == last'.arg.transferId
               t == transfers[Self][id]
           IN  /\ last'.threw = None
               /\ transfers'[Self][id].state = "rejected"
               /\ transfers'[Self][id].error = Some(Err(last'.arg.reason, <<>>))
               /\ SentOne(last', "reject", t)
               /\ SentOf(last')[1].msg.payload.reason = Err(last'.arg.reason, <<>>)
    ]_vars

\* C11's cases: the host has accepted a pending offer with a resume point, and
\* the host has rejected one.
C11_Witness ==
  /\ last.op = "acceptTransfer"
  /\ last.threw = None
  /\ last.arg.resumeFrom = Some(1)
  /\ transfers[Self]["x1"].state = "accepted"
  /\ assemblers[Self]["x1"].chunks = EmptyMap
  /\ SentTypes(last) = << "accept" >>
  /\ SentOf(last)[1].msg.payload.resumeFrom = Some(1)

C11_WitnessReject ==
  /\ last.op = "rejectTransfer"
  /\ last.threw = None
  /\ transfers[Self]["x1"].state = "rejected"
  /\ transfers[Self]["x1"].error = Some(Err("no", <<>>))
  /\ SentTypes(last) = << "reject" >>

\* The host's call l.op names a transfer in state completed.
OnCompleted(l, op) ==
  /\ l.op = op
  /\ l.arg.transferId \in DOMAIN transfers[l.node]
  /\ transfers[l.node][l.arg.transferId].state = "completed"

\* C12: acceptTransfer and rejectTransfer on an unknown transfer, a send
\* transfer or a transfer that is not pending, and resumeTransfer on a completed
\* transfer, throw to the caller, send nothing and leave every transfer, every
\* assembler, the file paths and the disk as they were.
C12_RefusedCalls ==
  [][ ( \/ last'.op = "acceptTransfer" /\ ~OnPending(last', "acceptTransfer")
        \/ last'.op = "rejectTransfer" /\ ~OnPending(last', "rejectTransfer")
        \/ OnCompleted(last', "resumeTransfer") ) =>
          /\ IsSome(last'.threw)
          /\ last'.sent = <<>>
          /\ transfers' = transfers
          /\ assemblers' = assemblers
          /\ filePaths' = filePaths
          /\ disk' = disk
          /\ writes' = writes
    ]_vars

\* C12's cases: acceptTransfer refused on a send transfer, rejectTransfer
\* refused on an accepted one, resumeTransfer refused on a completed receive
\* transfer that has its file written.
C12_Witness ==
  /\ last.op = "acceptTransfer"
  /\ last.arg.transferId = "x2"
  /\ "x2" \in DOMAIN transfers[Self]
  /\ transfers[Self]["x2"].direction = "send"
  /\ transfers[Self]["x2"].state = "transferring"
  /\ last.threw = Some("Invalid transfer or already processed")

C12_WitnessReject ==
  /\ last.op = "rejectTransfer"
  /\ "x1" \in DOMAIN transfers[Self]
  /\ transfers[Self]["x1"].state = "accepted"
  /\ last.threw = Some("Invalid transfer or already processed")

C12_WitnessResume ==
  /\ last.op = "resumeTransfer"
  /\ last.arg.transferId = "x1"
  /\ "x1" \in DOMAIN transfers[Self]
  /\ transfers[Self]["x1"].state = "completed"
  /\ Len(writes[Self]) = 1
  /\ last.threw = Some("Transfer already completed")

\* ------------------------------------------------------------------ claims on resumeTransfer

\* The index a transfer restarts from: one past the largest index of
\* receivedChunks, 0 when there is none.
RestartIndex(t) ==
  IF t.receivedChunks = {} THEN 0
  ELSE (CHOOSE x \in t.receivedChunks : \A y \in t.receivedChunks : y <= x) + 1

\* Node A's host has just resumed its send transfer, offering to restart from r.
ResumedFrom(r) ==
  /\ last.op = "resumeTransfer"
  /\ last.node = "A"
  /\ last.threw = None
  /\ SentTypes(last) = << "offer" >>
  /\ SentOf(last)[1].msg.payload.resumeFrom = Some(r)

\* Node A has just handled an accept that restarts from r, and sent chunk r alone.
RestartedAt(r) ==
  /\ Handled(last, "accept")
  /\ last.node = "A"
  /\ MsgOf(last).payload.resumeFrom = Some(r)
  /\ SentTypes(last) = << "chunk" >>
  /\ SentOf(last)[1].msg.payload.index = r

\* C13: resumeTransfer on a transfer that is not completed restarts from
\* r = max(receivedChunks) + 1 (0 when receivedChunks is empty): on a receive
\* transfer it accepts again, sending one accept with resumeFrom = r; on a send
\* transfer it sets the state to pending and sends the offer again, with the
\* transfer's file fields and resumeFrom = r; and after the sender's resume the
\* sender comes to handle the accept with resumeFrom = r and sends chunk r.
C13_ResumeRestarts ==
  /\ [][ ( /\ last'.op = "resumeTransfer"
           /\ last'.arg.transferId \in DOMAIN transfers[last'.node]
           /\ transfers[last'.node][last'.arg.transferId].state # "completed" ) =>
           LET id == last'.arg.transferId
               t == transfers[last'.node][id]
               u == transfers'[last'.node][id]
               m == SentOf(last')[1].msg
           IN  /\ last'.threw = None
               /\ u.receivedChunks = t.receivedChunks
               /\ IF t.direction = "receive"
                  THEN /\ u.state = "accepted"
                       /\ SentOne(last', "accept", t)
                       /\ m.payload.resumeFrom = Some(RestartIndex(t))
                  ELSE /\ u.state = "pending"
                       /\ SentOne(last', "offer", t)
                       /\ m.payload.resumeFrom = Some(RestartIndex(t))
                       /\ m.payload.hash = t.hash
                       /\ m.payload.size = t.size
                       /\ m.payload.totalChunks = t.totalChunks
                       /\ m.payload.chunkSize = t.chunkSize
       ]_vars
  /\ \A r \in 0..MaxFileLen : ResumedFrom(r) ~> RestartedAt(r)

\* C13's cases: the sender resumed with chunk 0 acknowledged, offering to restart
\* from 1; the sender restarted at chunk 1 on the accept; the receiver resumed
\* with chunk 0 received.
C13_Witness ==
  /\ ResumedFrom(1)
  /\ transfers["A"]["x1"].state = "pending"
  /\ transfers["A"]["x1"].receivedChunks = { 0 }
  /\ transfers["A"]["x1"].totalChunks = MaxFileLen

C13_WitnessRestart ==
  /\ RestartedAt(1)
  /\ transfers["A"]["x1"].receivedChunks = { 0 }
  /\ transfers["A"]["x1"].totalChunks = MaxFileLen

C13_WitnessReceiver ==
  /\ last.op = "resumeTransfer"
  /\ last.node = "B"
  /\ last.threw = None
  /\ transfers["B"]["x1"].receivedChunks = { 0 }
  /\ SentTypes(last) = << "accept" >>
  /\ SentOf(last)[1].msg.payload.resumeFrom = Some(1)

\* ------------------------------------------------------------------ claims on getResumableTransfers

\* C14: getResumableTransfers returns exactly the tracked transfers that are
\* marked resumable, are neither completed nor rejected and have a non-empty
\* receivedChunks, and it changes no transfer and no assembler.
C14_Resumable ==
  [][ last'.op = "getResumableTransfers" =>
        /\ last'.list =
             { id \in DOMAIN transfers[last'.node] :
                 /\ transfers[last'.node][id].resumable
                 /\ transfers[last'.node][id].state \notin { "completed", "rejected" }
                 /\ transfers[last'.node][id].receivedChunks # {} }
        /\ last'.threw = None
        /\ last'.sent = <<>>
        /\ transfers' = transfers
        /\ assemblers' = assemblers
    ]_vars

\* C14's cases: the receiver's transfer with a chunk received is returned; the
\* sender's transfer with a chunk acknowledged, which is not marked resumable,
\* is not; the receiver's completed transfer is not.
C14_Witness ==
  /\ last.op = "getResumableTransfers"
  /\ last.node = "B"
  /\ last.list = { "x1" }
  /\ transfers["B"]["x1"].receivedChunks # {}

C14_WitnessSender ==
  /\ last.op = "getResumableTransfers"
  /\ last.node = "A"
  /\ last.list = {}
  /\ "x1" \in DOMAIN transfers["A"]
  /\ transfers["A"]["x1"].receivedChunks # {}
  /\ transfers["A"]["x1"].state = "transferring"

C14_WitnessCompleted ==
  /\ last.op = "getResumableTransfers"
  /\ last.node = "B"
  /\ last.list = {}
  /\ "x1" \in DOMAIN transfers["B"]
  /\ transfers["B"]["x1"].state = "completed"
  /\ transfers["B"]["x1"].receivedChunks # {}

\* ------------------------------------------------------------------ claims on sendFile

\* The secret the trust store of node n holds for the peer, if it holds one.
StoredSecret(n, peerId) ==
  IF \E i \in 1..Len(config[n].trustedPeers) : config[n].trustedPeers[i].id = peerId
  THEN Some(config[n].trustedPeers[
              CHOOSE i \in 1..Len(config[n].trustedPeers) :
                /\ config[n].trustedPeers[i].id = peerId
                /\ \A j \in 1..(i - 1) : config[n].trustedPeers[j].id # peerId ].secret)
  ELSE None

\* C15, as stated: sendFile registers a new TransferInfo with direction send,
\* state pending and empty receivedChunks and sends exactly one offer to the
\* peer, whose secret is the one the trust store holds for the peer (absent when
\* it holds none); and no chunk is sent until an accept is received: the step
\* that follows sendFile sends a chunk of the new transfer only if it handles an
\* accept.
C15_AsStated ==
  [][ /\ last'.op = "sendFile" =>
           LET id == last'.arg.transferId
               n == last'.node
           IN  /\ id \notin DOMAIN transfers[n]
               /\ id \in DOMAIN transfers'[n]
               /\ transfers'[n][id].direction = "send"
               /\ transfers'[n][id].state = "pending"
               /\ transfers'[n][id].receivedChunks = {}
               /\ transfers'[n][id].peerId = last'.arg.peerId
               /\ SentOne(last', "offer", transfers'[n][id])
               /\ SentOf(last')[1].msg.payload.secret = StoredSecret(n, last'.arg.peerId)
      /\ (last.op = "sendFile" /\ last'.op = "handleMessage") =>
           \A i \in 1..Len(last'.sent) :
             ( /\ SentOf(last')[i].msg.type = "chunk"
               /\ SentOf(last')[i].msg.transferId = last.arg.transferId ) =>
                 Handled(last', "accept")
    ]_vars

\* ------------------------------------------------------------------ claims on the tracked transfers

\* C16, as stated: in every reachable state of either side, whatever messages
\* came in (chunk and ack indices outside 0..totalChunks-1 and files of size 0
\* included), receivedChunks of every tracked transfer holds at most totalChunks
\* elements.
C16_AsStated ==
  \A n \in Nodes : \A id \in DOMAIN transfers[n] :
    Cardinality(transfers[n][id].receivedChunks) <= transfers[n][id].totalChunks

\* C17, as stated: a node holds at most one TransferInfo per transferId for the
\* lifetime of the transfer: once a TransferInfo exists for an id, a later offer
\* carrying that id neither replaces it nor resets its direction, state or
\* receivedChunks.
C17_AsStated ==
  [][ \A n \in Nodes : \A id \in DOMAIN transfers[n] :
        ( /\ Handled(last', "offer")
          /\ last'.node = n
          /\ MsgOf(last').transferId = id ) =>
            /\ id \in DOMAIN transfers'[n]
            /\ transfers'[n][id].direction = transfers[n][id].direction
            /\ transfers'[n][id].state = transfers[n][id].state
            /\ transfers'[n][id].receivedChunks = transfers[n][id].receivedChunks
    ]_vars

\* The transferId an operation is about: the one of the message handed to
\* handleMessage when the text decodes, the one passed to a call of the host.
HasSubject(l) ==
  \/ l.op = "handleMessage" /\ IsSome(decodeFromChat(l.arg.text))
  \/ l.op \in { "sendFile", "acceptTransfer", "rejectTransfer", "resumeTransfer" }

SubjectOf(l) ==
  IF l.op = "handleMessage" THEN MsgOf(l).transferId ELSE l.arg.transferId

Untouched(n, id) ==
  /\ id \in DOMAIN transfers[n] <=> id \in DOMAIN transfers'[n]
  /\ id \in DOMAIN transfers[n] => transfers'[n][id] = transfers[n][id]
  /\ id \in DOMAIN assemblers[n] <=> id \in DOMAIN assemblers'[n]
  /\ id \in DOMAIN assemblers[n] => assemblers'[n][id] = assemblers[n][id]

\* C18: handling a message or a call of the host for transferId X leaves the
\* TransferInfo and the assembler of every other transferId Y as they were,
\* whatever the order in which the messages of two transfers reach the node; an
\* operation about no transfer changes none.
C18_Frame ==
  [][ \A n \in Nodes : \A y \in TransferIds :
        (last'.op = "none" \/ ~HasSubject(last') \/ SubjectOf(last') # y \/ last'.node # n)
          => Untouched(n, y)
    ]_vars

\* A chunk of the incoming transfer x1 is stored while the outgoing transfer x2
\* is under way with acknowledged chunks.
C18_Witness ==
  /\ Handled(last, "chunk") /\ MsgOf(last).transferId = "x1"
  /\ "x1" \in DOMAIN assemblers[Self]
  /\ assemblers[Self]["x1"].chunks # EmptyMap
  /\ "x2" \in DOMAIN transfers[Self]
  /\ transfers[Self]["x2"].state = "transferring"
  /\ transfers[Self]["x2"].receivedChunks # {}

\* An ack of the outgoing transfer x2 is answered while the incoming transfer x1
\* holds chunks in its assembler.
C18_WitnessOther ==
  /\ Handled(last, "ack") /\ MsgOf(last).transferId = "x2"
  /\ last.sent # <<>>
  /\ "x1" \in DOMAIN assemblers[Self]
  /\ assemblers[Self]["x1"].chunks # EmptyMap
  /\ transfers[Self]["x1"].state = "transferring"

\* The peer's reject of x1 arrives while x2 is under way.
C18_WitnessReject ==
  /\ Handled(last, "reject") /\ MsgOf(last).transferId = "x1"
  /\ "x1" \in DOMAIN transfers[Self]
  /\ transfers[Self]["x1"].state = "rejected"
  /\ "x2" \in DOMAIN transfers[Self]
  /\ transfers[Self]["x2"].state = "transferring"

\* ------------------------------------------------------------------ claims on the peer's messages

Terminal == { "rejected", "failed", "completed" }

\* The last operation handled a message without payload.
Malformed(l) == Dispatched(l) /\ "payload" \notin DOMAIN MsgOf(l)

\* The transfer the last message names is tracked, in a terminal state, and a
\* rejected or failed one has its reason recorded.
EndedWithReason(ts, id) ==
  /\ id \in DOMAIN ts
  /\ ts[id].state \in Terminal
  /\ ts[id].state \in { "rejected", "failed" } => IsSome(ts[id].error)

\* C19, as stated: for every protocol message a peer can send (any type, any
\* order, repeated, for a known or an unknown transferId, without payload)
\* handleMessage does not throw; a malformed message changes nothing or drives
\* the transfer to a terminal state with a recorded reason; and no message moves
\* a transfer from a terminal state back to a non-terminal one.
C19_AsStated ==
  [][ Dispatched(last') =>
        LET n == last'.node
            id == MsgOf(last').transferId
        IN  /\ last'.threw = None
            /\ Malformed(last') =>
                 \/ transfers'[n] = transfers[n] /\ assemblers'[n] = assemblers[n]
                 \/ EndedWithReason(transfers'[n], id)
            /\ (id \in DOMAIN transfers[n] /\ transfers[n][id].state \in Terminal) =>
                 transfers'[n][id].state \in Terminal
    ]_vars

\* ------------------------------------------------------------------ claims on the chunk codec

\* The number of chunks of a file of `size` bytes cut every c bytes: the least
\* count of c-byte pieces that covers the file.
CountOfChunks(size, c) ==
  CHOOSE k \in 0..size : k * c >= size /\ \A j \in 0..(k - 1) : j * c < size

\* The assembler of x1 holds a chunk for every index of the source file, and
\* for no other.
AllFed ==
  DOMAIN assemblers[Self]["x1"].chunks =
    0..(CountOfChunks(Len(disk[Self][ChunkSource]), config[Self].chunkSize) - 1)

\* C20: for every file content and every chunkSize >= 1, each chunk that
\* readChunk cuts is taken by the assembler, and once the chunks of all indices
\* 0..totalChunks-1 were added, in whatever order, assemble succeeds and writes
\* exactly the bytes of the file.
C20_RoundTrip ==
  [][ /\ last'.op = "addChunk" => last'.ret = "true"
      /\ (last'.op = "assemble" /\ AllFed) =>
           /\ last'.ret = "true"
           /\ writes'[Self] =
                Append(writes[Self], [ transferId |-> "x1", path |-> ChunkTarget,
                                       data |-> disk[Self][ChunkSource] ])
           /\ disk'[Self][ChunkTarget] = disk[Self][ChunkSource]
           /\ disk'[Self][ChunkSource] = disk[Self][ChunkSource]
    ]_vars

\* A file of MaxFileLen bytes cut every two bytes (the last chunk is short) has
\* been assembled.
C20_Witness ==
  /\ last.op = "assemble" /\ last.ret = "true"
  /\ config[Self].chunkSize = 2
  /\ Len(disk[Self][ChunkSource]) = MaxFileLen
  /\ DOMAIN assemblers[Self]["x1"].chunks = 0..(CeilDiv(MaxFileLen, 2) - 1)
  /\ writes[Self] # <<>>
  /\ writes[Self][1].data = disk[Self][ChunkSource]
  /\ writes[Self][1].data # <<>>

\* The last chunk was added before the first one.
C20_WitnessOutOfOrder ==
  /\ last.op = "addChunk" /\ last.arg.index = 0
  /\ config[Self].chunkSize = 1
  /\ Len(disk[Self][ChunkSource]) = MaxFileLen
  /\ DOMAIN assemblers[Self]["x1"].chunks = { 0, MaxFileLen - 1 }

\* The empty file, of no chunk, has been assembled.
C20_WitnessEmpty ==
  /\ last.op = "assemble" /\ last.ret = "true"
  /\ disk[Self][ChunkSource] = <<>>
  /\ writes[Self] # <<>>
  /\ writes[Self][1].data = <<>>

\* ------------------------------------------------------------------ claims on the message codec

\* C21, as stated: for every message m the builder produces,
\* decodeFromChat(encodeForChat(m)) is m; and for every text without the prefix,
\* or whose body is no Base64 of JSON, or whose JSON lacks version, type or
\* transferId, decoding returns null; decoding never throws.
C21_AsStated ==
  [][ last'.op = "decodeFromChat" =>
        LET text == last'.arg.text
        IN  /\ last'.threw = None
            /\ \A m \in BuiltMessages :
                 text = encodeForChat(m) => last'.list = { m }
            /\ text \in ForeignTexts => last'.ret = "null" /\ last'.list = {}
    ]_vars

\* ------------------------------------------------------------------ claims on the sender's handlers

\* The index an accept names: its resumeFrom, 0 when it has none.
ResumeIndex(m) == IF m.payload.resumeFrom = None THEN 0 ELSE m.payload.resumeFrom[1]

\* C22: on the sender, an accept for a send transfer in state pending moves it to
\* transferring and makes the sender send exactly one chunk, whose index is the
\* accept's resumeFrom (0 when absent); an accept for a receive transfer or for
\* an unknown transferId changes nothing and sends nothing.
C22_Accept ==
  [][ Handled(last', "accept") =>
        LET n == last'.node
            id == MsgOf(last').transferId
        IN  /\ ( /\ id \in DOMAIN transfers[n]
                 /\ transfers[n][id].direction = "send"
                 /\ transfers[n][id].state = "pending" ) =>
                   /\ transfers'[n][id].state = "transferring"
                   /\ SentOne(last', "chunk", transfers[n][id])
                   /\ SentOf(last')[1].msg.payload.index = ResumeIndex(MsgOf(last'))
            /\ ( \/ id \notin DOMAIN transfers[n]
                 \/ transfers[n][id].direction = "receive" ) =>
                   /\ transfers'[n] = transfers[n]
                   /\ assemblers'[n] = assemblers[n]
                   /\ filePaths'[n] = filePaths[n]
                   /\ writes'[n] = writes[n]
                   /\ last'.sent = <<>>
    ]_vars

\* An accept that names chunk 1 has started a pending transfer of a file of
\* MaxFileLen bytes.
C22_Witness ==
  /\ Handled(last, "accept")
  /\ MsgOf(last).payload.resumeFrom = Some(1)
  /\ "x1" \in DOMAIN transfers[Self]
  /\ transfers[Self]["x1"].state = "transferring"
  /\ transfers[Self]["x1"].size = MaxFileLen
  /\ transfers[Self]["x1"].receivedChunks = {}
  /\ SentTypes(last) = << "chunk" >>
  /\ SentOf(last)[1].msg.payload.index = 1

\* An accept without resumeFrom has started a pending transfer.
C22_WitnessFromZero ==
  /\ Handled(last, "accept")
  /\ MsgOf(last).transferId = "x1"
  /\ MsgOf(last).payload.resumeFrom = None
  /\ "x1" \in DOMAIN transfers[Self]
  /\ transfers[Self]["x1"].receivedChunks = {}
  /\ SentTypes(last) = << "chunk" >>
  /\ SentOf(last)[1].msg.payload.index = 0

\* An accept arrived for a transfer this node receives.
C22_WitnessReceive ==
  /\ Handled(last, "accept")
  /\ MsgOf(last).transferId = "x2"
  /\ "x2" \in DOMAIN transfers[Self]
  /\ transfers[Self]["x2"].direction = "receive"
  /\ last.sent = <<>>

\* An accept arrived for a transferId this node does not track.
C22_WitnessUnknown ==
  /\ Handled(last, "accept")
  /\ MsgOf(last).transferId \notin DOMAIN transfers[Self]

\* The last message is an ack for a transfer that node n sends.
AckOnSend(l, n, id) ==
  /\ Handled(l, "ack")
  /\ l.node = n
  /\ MsgOf(l).transferId = id
  /\ id \in DOMAIN transfers[n]
  /\ transfers[n][id].direction = "send"

\* C23, as stated: on the sender, an ack with index -1 received in state
\* completing or completed sets the state to completed; every other ack received
\* in a terminal state (completed, rejected, failed) is ignored: it changes no
\* state, adds nothing to receivedChunks and has no message sent.
C23_AsStated ==
  [][ \A n \in Nodes : \A id \in TransferIds :
        AckOnSend(last', n, id) =>
          LET t == transfers[n][id]
              final == MsgOf(last').payload.index = -1
          IN  /\ (final /\ t.state \in { "completing", "completed" }) =>
                   transfers'[n][id].state = "completed"
              /\ (t.state \in Terminal /\ ~(final /\ t.state = "completed")) =>
                   /\ transfers'[n][id] = t
                   /\ last'.sent = <<>>
    ]_vars

\* ------------------------------------------------------------------ claims on the receiver's handlers

\* The last message has the given type and is for a transfer that node n
\* receives and has an assembler for.
OnAccepted(l, type, n, id) ==
  /\ Handled(l, type)
  /\ l.node = n
  /\ MsgOf(l).transferId = id
  /\ id \in DOMAIN transfers[n]
  /\ transfers[n][id].direction = "receive"
  /\ id \in DOMAIN assemblers[n]

\* The assembler holds a chunk for the indices 0..totalChunks-1 and no other,
\* and the chunks in index order hash to the hash of the offer.
WouldAssemble(asm) ==
  /\ DOMAIN asm.chunks = 0..(asm.totalChunks - 1)
  /\ sha256(InOrder(asm.chunks, 0, asm.totalChunks)) = asm.expectedHash

\* C24: on the receiver, a complete for an accepted receive transfer runs
\* assemble once: on success the state becomes completed (and the file is
\* written, once), on failure it becomes failed with the error recorded (and
\* nothing is written); in both cases exactly one ack with index -1 is sent back,
\* whose received flag is the outcome of the assembly.
C24_Complete ==
  [][ \A n \in Nodes : \A id \in TransferIds :
        OnAccepted(last', "complete", n, id) =>
          LET asm == assemblers[n][id]
              ok == WouldAssemble(asm)
              u == transfers'[n][id]
          IN  /\ ok => /\ u.state = "completed"
                       /\ Len(writes'[n]) = Len(writes[n]) + 1
                       /\ writes'[n][Len(writes'[n])].path = asm.outputPath
              /\ ~ok => /\ u.state = "failed"
                        /\ IsSome(u.error)
                        /\ writes'[n] = writes[n]
                        /\ disk'[n] = disk[n]
              /\ SentOne(last', "ack", transfers[n][id])
              /\ SentOf(last')[1].msg.payload.index = -1
              /\ SentOf(last')[1].msg.payload.received = ok
    ]_vars

\* A complete found every chunk of a file of MaxFileLen bytes: completed, acked.
C24_Witness ==
  /\ Handled(last, "complete")
  /\ "x1" \in DOMAIN transfers[Self]
  /\ transfers[Self]["x1"].state = "completed"
  /\ transfers[Self]["x1"].receivedChunks = 0..(CeilDiv(MaxFileLen, 2) - 1)
  /\ writes[Self] # <<>>
  /\ Len(writes[Self][1].data) = MaxFileLen
  /\ SentTypes(last) = << "ack" >>
  /\ SentOf(last)[1].msg.payload.received

\* A complete found a chunk missing: failed, with the error, and a nack.
C24_WitnessFailed ==
  /\ Handled(last, "complete")
  /\ "x1" \in DOMAIN transfers[Self]
  /\ transfers[Self]["x1"].state = "failed"
  /\ IsSome(transfers[Self]["x1"].error)
  /\ transfers[Self]["x1"].receivedChunks = { 0 }
  /\ writes[Self] = <<>>
  /\ SentTypes(last) = << "ack" >>
  /\ ~SentOf(last)[1].msg.payload.received

\* A complete found the chunks of another content: failed on the file's hash.
C24_WitnessHash ==
  /\ Handled(last, "complete")
  /\ "x1" \in DOMAIN transfers[Self]
  /\ transfers[Self]["x1"].state = "failed"
  /\ transfers[Self]["x1"].error = Some(Err("File hash mismatch", <<>>))
  /\ writes[Self] = <<>>

\* ------------------------------------------------------------------ claims on error messages

\* C25: an error message (with its payload) for a tracked transfer, received in
\* any state and on either side, sets the transfer's state to failed and records
\* the error's message; it sends no message and touches no other transfer, and
\* nothing else of the transfer changes.
C25_Error ==
  [][ \A n \in Nodes : \A id \in TransferIds :
        ( /\ Handled(last', "error") /\ ~Malformed(last')
          /\ last'.node = n
          /\ MsgOf(last').transferId = id
          /\ id \in DOMAIN transfers[n] ) =>
            /\ transfers'[n] =
                 [ transfers[n] EXCEPT
                     ![id] = [ transfers[n][id] EXCEPT
                                 !.state = "failed",
                                 !.error = Some(MsgOf(last').payload.message) ] ]
            /\ assemblers'[n] = assemblers[n]
            /\ last'.sent = <<>>
            /\ last'.threw = None
    ]_vars

\* An error reached a send transfer under way, while a receive transfer with
\* stored chunks is tracked beside it.
C25_Witness ==
  /\ Handled(last, "error") /\ ~Malformed(last)
  /\ MsgOf(last).transferId = "x2"
  /\ "x2" \in DOMAIN transfers[Self]
  /\ transfers[Self]["x2"].direction = "send"
  /\ transfers[Self]["x2"].state = "failed"
  /\ transfers[Self]["x2"].error = Some(Err("boom", <<>>))
  /\ transfers[Self]["x2"].receivedChunks # {}
  /\ "x1" \in DOMAIN transfers[Self]
  /\ transfers[Self]["x1"].state = "transferring"

\* An error reached a receive transfer that had completed.
C25_WitnessCompleted ==
  /\ Handled(last, "error") /\ ~Malformed(last)
  /\ MsgOf(last).transferId = "x1"
  /\ "x1" \in DOMAIN transfers[Self]
  /\ transfers[Self]["x1"].direction = "receive"
  /\ transfers[Self]["x1"].state = "failed"
  /\ transfers[Self]["x1"].error = Some(Err("boom", <<>>))
  /\ writes[Self] # <<>>

\* An error reached a receive transfer that was pending.
C25_WitnessPending ==
  /\ Handled(last, "error") /\ ~Malformed(last)
  /\ MsgOf(last).transferId = "x1"
  /\ "x1" \in DOMAIN transfers[Self]
  /\ transfers[Self]["x1"].state = "failed"
  /\ "x1" \notin DOMAIN assemblers[Self]

\* ------------------------------------------------------------------ claims on chunks

\* The last message is a chunk whose declared hash is not the hash of its data.
BadChunk(l) ==
  /\ Handled(l, "chunk") /\ ~Malformed(l)
  /\ sha256(fromBase64(MsgOf(l).payload.data)) # MsgOf(l).payload.hash

\* C26, as stated: a chunk that fails the hash check does not advance the
\* receiver's transfer state: the state after handling it is the state before
\* (a transfer in accepted stays accepted).
C26_AsStated ==
  [][ \A n \in Nodes : \A id \in TransferIds :
        ( /\ BadChunk(last')
          /\ last'.node = n
          /\ MsgOf(last').transferId = id
          /\ id \in DOMAIN transfers[n]
          /\ transfers[n][id].direction = "receive" ) =>
            transfers'[n][id].state = transfers[n][id].state
    ]_vars

\* ------------------------------------------------------------------ claims on the output file

\* The writes of node n that belong to transfer id.
WritesOf(n, id) == { i \in 1..Len(writes[n]) : writes[n][i].transferId = id }

\* C27, as stated: whatever messages come in (complete more than once, chunks
\* after a complete), the receiver writes the output file of one transfer at
\* most once.
C27_AsStated ==
  \A n \in Nodes : \A id \in TransferIds : Cardinality(WritesOf(n, id)) <= 1

\* ------------------------------------------------------------------ claims on the assemblers

\* C28, as stated: an assembler exists for a transferId only between the
\* transfer's acceptance and its reaching a terminal state: in every reachable
\* state in which a receive transfer is completed, failed or rejected the node
\* holds no assembler for it.
C28_AsStated ==
  \A n \in Nodes : \A id \in DOMAIN transfers[n] :
    ( /\ transfers[n][id].direction = "receive"
      /\ transfers[n][id].state \in Terminal ) => id \notin DOMAIN assemblers[n]

\* The indices of [0, totalChunks) for which the assembler holds no chunk.
Absent(asm) == { i \in 0..(asm.totalChunks - 1) : i \notin DOMAIN asm.chunks }

\* seq lists the numbers of S, each once, in ascending order.
ListsExactly(seq, S) ==
  /\ Len(seq) = Cardinality(S)
  /\ { seq[i] : i \in 1..Len(seq) } = S
  /\ \A i \in 1..(Len(seq) - 1) : seq[i] < seq[i + 1]

\* C29: whenever the assembler holds fewer than totalChunks chunks, assemble
\* (run by a complete message) fails with a missing-chunks error that lists
\* exactly the indices of [0, totalChunks) the assembler does not hold, also when
\* chunks with indices outside [0, totalChunks) have been added; nothing is
\* written.
C29_MissingChunks ==
  [][ \A n \in Nodes : \A id \in TransferIds :
        ( /\ OnAccepted(last', "complete", n, id)
          /\ Cardinality(DOMAIN assemblers[n][id].chunks) < assemblers[n][id].totalChunks ) =>
            LET asm == assemblers[n][id]
                u == transfers'[n][id]
            IN  /\ u.state = "failed"
                /\ IsSome(u.error)
                /\ Val(u.error).text = "Missing chunks"
                /\ ListsExactly(Val(u.error).indices, Absent(asm))
                /\ writes'[n] = writes[n]
                /\ SentOf(last')[1].msg.payload.error = u.error
                /\ ~SentOf(last')[1].msg.payload.received
    ]_vars

\* A complete found an assembler that holds one chunk, outside [0, totalChunks):
\* both indices are listed.
C29_Witness ==
  /\ Handled(last, "complete")
  /\ "x1" \in DOMAIN assemblers[Self]
  /\ assemblers[Self]["x1"].totalChunks = 2
  /\ DOMAIN assemblers[Self]["x1"].chunks = { 2 }
  /\ transfers[Self]["x1"].state = "failed"
  /\ transfers[Self]["x1"].error = Some(Err("Missing chunks", << 0, 1 >>))

\* A complete found the second chunk only.
C29_WitnessOne ==
  /\ Handled(last, "complete")
  /\ "x1" \in DOMAIN assemblers[Self]
  /\ assemblers[Self]["x1"].totalChunks = 2
  /\ DOMAIN assemblers[Self]["x1"].chunks = { 1 }
  /\ transfers[Self]["x1"].error = Some(Err("Missing chunks", << 0 >>))

\* A complete found no chunk at all.
C29_WitnessNone ==
  /\ Handled(last, "complete")
  /\ "x1" \in DOMAIN assemblers[Self]
  /\ assemblers[Self]["x1"].totalChunks = 2
  /\ assemblers[Self]["x1"].chunks = EmptyMap
  /\ transfers[Self]["x1"].error = Some(Err("Missing chunks", << 0, 1 >>))

\* ------------------------------------------------------------------ claims on file failures

\* Handling the last message, node n had to read a chunk of the file of the send
\* transfer id, and the file was not there.
ReadFailed(l, n, id) ==
  /\ Dispatched(l) /\ ~Malformed(l)
  /\ l.node = n
  /\ MsgOf(l).transferId = id
  /\ id \in DOMAIN transfers[n]
  /\ transfers[n][id].direction = "send"
  /\ id \in DOMAIN filePaths[n]
  /\ filePaths[n][id] \notin DOMAIN disk[n]
  /\ \/ MsgOf(l).type = "accept"
     \/ /\ MsgOf(l).type = "ack"
        /\ transfers[n][id].state = "transferring"
        /\ MsgOf(l).payload.index + 1 < transfers[n][id].totalChunks

\* Handling the last message, a complete, node n had the whole file of the receive
\* transfer id to write, and the directory of its path does not exist.
WriteFailed(l, n, id) ==
  /\ OnAccepted(l, "complete", n, id)
  /\ WouldAssemble(assemblers[n][id])
  /\ assemblers[n][id].outputPath[1] \notin Directories

\* C30, as stated: a file read failure while the sender produces a chunk, or a
\* file write failure while the receiver assembles, drives the transfer to the
\* terminal state failed, with the failure's message in the transfer's error.
C30_AsStated ==
  [][ \A n \in Nodes : \A id \in TransferIds :
        (ReadFailed(last', n, id) \/ WriteFailed(last', n, id)) =>
          /\ transfers'[n][id].state = "failed"
          /\ IsSome(transfers'[n][id].error)
    ]_vars

\* ------------------------------------------------------------------ claims on the progress

\* C31, as stated: for every state of the assembler, progress is
\* floor(100 * receivedCount / totalChunks), a number of 0..100.
C31_AsStated ==
  [][ last'.op = "getProgress" =>
        LET asm == assemblers[last'.node][last'.arg.transferId]
            receivedCount == Cardinality(DOMAIN asm.chunks)
        IN  /\ last'.ret = "number"
            /\ \A p \in last'.list : p \in 0..100
            /\ asm.totalChunks > 0 =>
                 last'.list = { (100 * receivedCount) \div asm.totalChunks }
    ]_vars

\* ------------------------------------------------------------------ claims on readChunk

\* The bytes of data from offset lo (counted from 0) up to, not including, hi.
ByteRange(data, lo, hi) == [ k \in 1..(hi - lo) |-> data[lo + k] ]

\* C32, as stated: readChunk(file, index, chunkSize) returns the bytes of
\* [index*chunkSize, min(size, (index+1)*chunkSize)) for every index of
\* [0, totalChunks), and fails with an index error, returning no chunk, for every
\* other index (negative, or with index*chunkSize >= size).
C32_AsStated ==
  [][ last'.op = "readChunk" =>
        LET data == disk[last'.node][ChunkSource]
            c == config[last'.node].chunkSize
            index == last'.arg.index
            size == Len(data)
        IN  IF index >= 0 /\ index * c < size
            THEN /\ last'.threw = None
                 /\ \E chunk \in last'.list :
                      /\ last'.list = { chunk }
                      /\ chunk.index = index
                      /\ chunk.data = ByteRange(data, index * c, Min(size, (index + 1) * c))
            ELSE /\ last'.threw # None
                 /\ last'.list = {}
    ]_vars

\* ------------------------------------------------------------------ claims on the final ack

\* The last operation handled the final ack (index -1) with received false.
FinalNack(l) ==
  /\ Handled(l, "ack")
  /\ "payload" \in DOMAIN MsgOf(l)
  /\ MsgOf(l).payload.index = -1
  /\ MsgOf(l).payload.received = FALSE

\* The transfer id of node n is a send transfer in state completed.
SendCompleted(ts, id) ==
  /\ id \in DOMAIN ts
  /\ ts[id].direction = "send"
  /\ ts[id].state = "completed"

\* C33, as stated: the sender's transfer reaches state completed only if the
\* receiver's assembly succeeded, that is the receiver's transfer is completed;
\* handling the final ack with received false, which the receiver sends when its
\* assembly failed, does not make the sender's transfer completed.
C33_AsStated ==
  [][ /\ \A id \in TransferIds :
           (SendCompleted(transfers'["A"], id) /\ ~SendCompleted(transfers["A"], id))
             => /\ id \in DOMAIN transfers'["B"]
                /\ transfers'["B"][id].state = "completed"
      /\ FinalNack(last')
           => \A id \in TransferIds :
                SendCompleted(transfers'[last'.node], id)
                  => SendCompleted(transfers[last'.node], id)
    ]_vars

\* ------------------------------------------------------------------ claims on the receiver's resume

\* The last operation is a resumeTransfer of node n on its receive transfer id,
\* which is not completed and has ingested the chunks 0..k for some k.
ReceiverResumed(l, n, id) ==
  /\ l.op = "resumeTransfer"
  /\ l.node = n
  /\ l.arg.transferId = id
  /\ id \in DOMAIN transfers[n]
  /\ transfers[n][id].direction = "receive"
  /\ transfers[n][id].state # "completed"
  /\ id \in DOMAIN assemblers[n]
  /\ \E k \in 0..(MaxFileLen - 1) :
       /\ DOMAIN assemblers[n][id].chunks = 0..k
       /\ transfers[n][id].receivedChunks = 0..k

\* C34, as stated: after the receiver's resumeTransfer on a transfer that has
\* ingested the chunks 0..k, the transfer's assembler still holds those chunks;
\* and so a complete that the receiver handles once every index of
\* 0..totalChunks-1 is in receivedChunks is assembled with success and leaves
\* the transfer completed.
C34_AsStated ==
  [][ \A id \in TransferIds :
        /\ ReceiverResumed(last', "B", id) =>
             /\ id \in DOMAIN assemblers'["B"]
             /\ \A i \in DOMAIN assemblers["B"][id].chunks :
                  /\ i \in DOMAIN assemblers'["B"][id].chunks
                  /\ assemblers'["B"][id].chunks[i] = assemblers["B"][id].chunks[i]
        /\ ( /\ OnAccepted(last', "complete", "B", id)
             /\ transfers["B"][id].state \in { "accepted", "transferring" }
             /\ transfers["B"][id].receivedChunks = 0..(transfers["B"][id].totalChunks - 1) )
             => transfers'["B"][id].state = "completed"
    ]_vars

\* ------------------------------------------------------------------ claims on the message's origin

\* The last operation handled a message that names a transfer node n tracks and
\* that comes from another node than the transfer's peer.
FromStranger(l, n, id) ==
  /\ Dispatched(l)
  /\ l.node = n
  /\ MsgOf(l).transferId = id
  /\ id \in DOMAIN transfers[n]
  /\ MsgOf(l).from # transfers[n][id].peerId

\* C35, as stated: a message that names a tracked transfer and comes from another
\* node than the transfer's peerId is ignored: the transfer's state and
\* receivedChunks and its assembler stay as they were, and nothing is sent.
C35_AsStated ==
  [][ \A id \in TransferIds :
        FromStranger(last', Self, id) =>
          /\ id \in DOMAIN transfers'[Self]
          /\ transfers'[Self][id].state = transfers[Self][id].state
          /\ transfers'[Self][id].receivedChunks = transfers[Self][id].receivedChunks
          /\ id \in DOMAIN assemblers[Self] <=> id \in DOMAIN assemblers'[Self]
          /\ id \in DOMAIN assemblers[Self] => assemblers'[Self][id] = assemblers[Self][id]
          /\ last'.sent = <<>>
    ]_vars

\* ------------------------------------------------------------------ claims on the sender's acks

\* The last operation sent a chunk or a complete message of transfer id.
SentData(l, id) ==
  \E i \in 1..Len(l.sent) :
    /\ SentOf(l)[i].msg.type \in { "chunk", "complete" }
    /\ SentOf(l)[i].msg.transferId = id

\* C36, as stated: the sender sends chunk and complete messages of a transfer
\* only while the transfer is transferring (in that state when the operation
\* starts, or brought to it by the operation); an ack, with received true or
\* false, for a send transfer that is pending, rejected or failed has no chunk
\* and no complete sent and changes no state.
C36_AsStated ==
  [][ \A n \in Nodes : \A id \in TransferIds :
        /\ ( /\ last'.node = n
             /\ SentData(last', id)
             /\ id \in DOMAIN transfers'[n]
             /\ transfers'[n][id].direction = "send" )
             => \/ id \in DOMAIN transfers[n] /\ transfers[n][id].state = "transferring"
                \/ transfers'[n][id].state = "transferring"
        /\ ( /\ AckOnSend(last', n, id)
             /\ transfers[n][id].state \in { "pending", "rejected", "failed" } )
             => /\ ~SentData(last', id)
                /\ transfers'[n][id].state = transfers[n][id].state
    ]_vars


\* The last operation brought the send transfer id of node n to state
\* completing and sent its complete message.
EnteredCompleting(l, n, id) ==
  /\ l.node = n
  /\ id \in DOMAIN transfers'[n]
  /\ transfers'[n][id].direction = "send"
  /\ transfers'[n][id].state = "completing"
  /\ ~(id \in DOMAIN transfers[n] /\ transfers[n][id].state = "completing")
  /\ \E i \in 1..Len(l.sent) :
       /\ SentOf(l)[i].msg.type = "complete"
       /\ SentOf(l)[i].msg.transferId = id

\* C37, as stated: whenever the sender enters state completing and sends
\* complete, every index of 0..totalChunks-1 is in the sender's receivedChunks,
\* whatever acks came in and whatever resumeFrom the accept carried.
C37_AsStated ==
  [][ \A n \in Nodes : \A id \in TransferIds :
        EnteredCompleting(last', n, id) =>
          \A i \in 0..(transfers'[n][id].totalChunks - 1) :
            i \in transfers'[n][id].receivedChunks
    ]_vars

\* ------------------------------------------------------------------ claims on the empty file

\* A's sendFile has just returned for transfer id, of the empty file.
SentEmpty(id) ==
  /\ last.op = "sendFile"
  /\ last.node = "A"
  /\ last.arg.transferId = id
  /\ last.threw = None
  /\ id \in DOMAIN transfers["A"]
  /\ transfers["A"][id].size = 0
  /\ transfers["A"][id].totalChunks = 0

\* C38, as stated: with delivery exactly once and in order and a secret that is
\* valid when the offer arrives, the transfer of an empty file ends completed on
\* both nodes with the empty output file written, and the receiver's
\* receivedChunks stays within 0..totalChunks-1.
C38_AsStated ==
  /\ \A id \in TransferIds : SentEmpty(id) ~> (Done(id) \/ OfferExpired(id))
  /\ [](\A id \in TransferIds :
          (id \in DOMAIN transfers["B"] /\ transfers["B"][id].totalChunks = 0) =>
            transfers["B"][id].receivedChunks \subseteq 0..(transfers["B"][id].totalChunks - 1))

\* ------------------------------------------------------------------ claims on the receiver's bookkeeping

\* C39, as stated: on the receiver, in every reachable state in which a transfer
\* has an assembler, the chunk indices stored in the assembler are the
\* transfer's receivedChunks, whatever offers, accepts, resumes and chunks came.
C39_AsStated ==
  \A n \in Nodes : \A id \in DOMAIN assemblers[n] :
    (id \in DOMAIN transfers[n] /\ transfers[n][id].direction = "receive") =>
      DOMAIN assemblers[n][id].chunks = transfers[n][id].receivedChunks

\* ------------------------------------------------------------------ claims on the order of writes and sends

\* What the engine of the last operation's node held when it handed its i-th
\* message to send.
SeenAt(l, i) == l.seen[i]

\* The last operation of node n is one of the operations that send: a host call,
\* or the handling of an offer, accept, chunk, ack or complete.
SendingOperation(l) ==
  \/ l.op \in { "sendFile", "acceptTransfer", "rejectTransfer", "resumeTransfer" }
  \/ \E type \in { "offer", "accept", "chunk", "ack", "complete" } : Handled(l, type)

\* C40: every operation that sends a message has recorded the transfer, its new
\* state, its assembler and its receivedChunks before it hands the message to
\* send: at each call of send the engine's maps are what they are when the
\* operation ends, so that a reply handled from within send finds what a reply
\* handled afterwards finds (the transfer with its file path for an offer sent
\* by sendFile, the accepted transfer with its assembler for an accept).
C40_RecordsBeforeSend ==
  [][ SendingOperation(last') =>
        \A i \in 1..Len(last'.sent) :
          LET seen == SeenAt(last', i)
              m == SentOf(last')[i].msg
              n == last'.node
          IN  /\ seen.transfers = transfers'[n]
              /\ seen.assemblers = assemblers'[n]
              /\ seen.filePaths = filePaths'[n]
              /\ (last'.op = "sendFile" /\ last'.threw = None) =>
                   /\ m.transferId \in DOMAIN seen.transfers
                   /\ seen.transfers[m.transferId].direction = "send"
                   /\ seen.transfers[m.transferId].state = "pending"
                   /\ m.transferId \in DOMAIN seen.filePaths
              /\ m.type = "accept" =>
                   /\ m.transferId \in DOMAIN seen.transfers
                   /\ seen.transfers[m.transferId].state = "accepted"
                   /\ m.transferId \in DOMAIN seen.assemblers
              /\ (m.type = "ack" /\ m.payload.index >= 0 /\ m.payload.received) =>
                   m.payload.index \in seen.transfers[m.transferId].receivedChunks
              /\ m.type = "complete" =>
                   seen.transfers[m.transferId].state = "completing"
    ]_vars

\* C40's cases: an accept sent by acceptTransfer with the new assembler in
\* place; a chunk acknowledged with its index recorded; an offer sent by
\* sendFile with the transfer recorded.
C40_Witness ==
  /\ last.op = "acceptTransfer"
  /\ last.threw = None
  /\ SentTypes(last) = << "accept" >>
  /\ last.arg.transferId \in DOMAIN SeenAt(last, 1).assemblers
  /\ SeenAt(last, 1).transfers[last.arg.transferId].state = "accepted"

C40_WitnessChunk ==
  /\ Handled(last, "chunk")
  /\ SentTypes(last) = << "ack" >>
  /\ SentOf(last)[1].msg.payload.received
  /\ SeenAt(last, 1).transfers[MsgOf(last).transferId].receivedChunks = { 0, 1 }

C40_WitnessSendFile ==
  /\ last.op = "sendFile"
  /\ SentTypes(last) = << "offer" >>
  /\ last.arg.transferId \in DOMAIN SeenAt(last, 1).transfers
  /\ last.arg.transferId \in DOMAIN SeenAt(last, 1).filePaths

====
